---------------------------- MODULE Spec2Model ----------------------------
(***************************************************************************)
(* Fly camera control of the engine's camera package (FlyControl).        *)
(*                                                                         *)
(* Two revisions of the controller are modelled:                          *)
(*   - the option based, chord and capture gated controller               *)
(*     (src/unnamed/part_000), specification Spec;                        *)
(*   - the earlier controller with the tables built into the constructor  *)
(*     (src/camera/fly_control.go), specification SpecLegacy.             *)
(*                                                                         *)
(* Numbers.  float32 scalars (angles in radians, speeds, the field of     *)
(* view in degrees, cursor coordinates) are exact rationals <<n, d>>, so  *)
(* scalar arithmetic is the code's arithmetic without rounding.  Vector   *)
(* components (math32.Vector3) are fixed point integers with VScale units *)
(* per 1.0; sines and cosines come from a table that is exact at the      *)
(* multiples of a quarter turn and rounded to 1/VScale elsewhere.         *)
(***************************************************************************)
EXTENDS Integers, Sequences, FiniteSets, TLC

(***************************************************************************)
(* Bounds of the model.                                                    *)
(***************************************************************************)
\* operations (options, calls and events) explored per behaviour
MaxSteps == 3

(***************************************************************************)
(* float32 scalars as exact rationals <<numerator, denominator>>.          *)
(***************************************************************************)
Abs(i) == IF i < 0 THEN -i ELSE i

RECURSIVE GCD(_, _)
GCD(a, b) == IF b = 0 THEN a ELSE GCD(b, a % b)

Rat(n, d) ==
    LET s == IF d < 0 THEN -1 ELSE 1
        g == GCD(Abs(n), Abs(d))
    IN  <<(s * n) \div g, (s * d) \div g>>

RZero == <<0, 1>>

RInt(i) == <<i, 1>>

RNeg(a) == <<-a[1], a[2]>>

RAbs(a) == <<Abs(a[1]), a[2]>>

RAdd(a, b) ==
    LET g == GCD(a[2], b[2])
    IN  Rat(a[1] * (b[2] \div g) + b[1] * (a[2] \div g), (a[2] \div g) * b[2])

RSub(a, b) == RAdd(a, RNeg(b))

RMul(a, b) ==
    LET g1 == GCD(Abs(a[1]), b[2])
        g2 == GCD(Abs(b[1]), a[2])
    IN  Rat((a[1] \div g1) * (b[1] \div g2), (a[2] \div g2) * (b[2] \div g1))

RInv(a) == Rat(a[2], a[1])

RLt(a, b) ==
    LET g == GCD(a[2], b[2])
    IN  a[1] * (b[2] \div g) < b[1] * (a[2] \div g)

RLe(a, b) == ~RLt(b, a)

(***************************************************************************)
(* math32 constants and the package's angle constants.                     *)
(***************************************************************************)
\* math32.Pi, to float32 precision
Pi == Rat(355, 113)

degrees == RMul(Pi, Rat(1, 180))

radians == RInv(degrees)

twoPiOver64 == RMul(RMul(RInt(2), Pi), Rat(1, 64))

Deg(n) == RMul(RInt(n), degrees)

(***************************************************************************)
(* math32.Vector3 in fixed point.  NaNVec is a vector of NaNs.             *)
(***************************************************************************)
VScale == 1000

NaNVec == <<>>

IsNaNVec(v) == v = NaNVec

\* n / d rounded to the nearest integer, d > 0
RoundDiv(n, d) ==
    IF n >= 0 THEN (2 * n + d) \div (2 * d) ELSE -((2 * (-n) + d) \div (2 * d))

FMul(a, b) == RoundDiv(a * b, VScale)

Vec(x, y, z) == <<x * VScale, y * VScale, z * VScale>>

VAdd(a, b) ==
    IF IsNaNVec(a) \/ IsNaNVec(b) THEN NaNVec
    ELSE <<a[1] + b[1], a[2] + b[2], a[3] + b[3]>>

VSub(a, b) ==
    IF IsNaNVec(a) \/ IsNaNVec(b) THEN NaNVec
    ELSE <<a[1] - b[1], a[2] - b[2], a[3] - b[3]>>

\* Vector3.MultiplyScalar with a rational scalar
MultiplyScalar(v, s) ==
    IF IsNaNVec(v) THEN NaNVec
    ELSE <<RoundDiv(v[1] * s[1], s[2]), RoundDiv(v[2] * s[1], s[2]),
           RoundDiv(v[3] * s[1], s[2])>>

Dot(a, b) == FMul(a[1], b[1]) + FMul(a[2], b[2]) + FMul(a[3], b[3])

Cross(a, b) ==
    IF IsNaNVec(a) \/ IsNaNVec(b) THEN NaNVec
    ELSE <<RoundDiv(a[2] * b[3] - a[3] * b[2], VScale),
           RoundDiv(a[3] * b[1] - a[1] * b[3], VScale),
           RoundDiv(a[1] * b[2] - a[2] * b[1], VScale)>>

RECURSIVE SqrtSearch(_, _, _)
SqrtSearch(n, lo, hi) ==
    IF lo >= hi THEN lo
    ELSE LET mid == (lo + hi + 1) \div 2
         IN  IF mid * mid <= n THEN SqrtSearch(n, mid, hi)
             ELSE SqrtSearch(n, lo, mid - 1)

\* r or r + 1, whichever is nearer to the square root of n, r its floor
Nearest(n, r) == IF n - r * r > r THEN r + 1 ELSE r

\* square root rounded to the nearest integer
ISqrt(n) == Nearest(n, SqrtSearch(n, 0, 46340))

Length(v) == ISqrt(v[1] * v[1] + v[2] * v[2] + v[3] * v[3])

\* Vector3.DivideScalar by a length; a zero length gives NaNs
DivideScalar(v, len) ==
    IF len = 0 THEN NaNVec
    ELSE <<RoundDiv(v[1] * VScale, len), RoundDiv(v[2] * VScale, len),
           RoundDiv(v[3] * VScale, len)>>

\* Vector3.Normalize
Normalize(v) == IF IsNaNVec(v) THEN NaNVec ELSE DivideScalar(v, Length(v))

(***************************************************************************)
(* math32.Cos and math32.Sin, in fixed point, of the angles the model      *)
(* uses: the multiples of twoPiOver64, a tenth of a radian and SteepAngle.  *)
(***************************************************************************)
CosTable ==
    <<1000, 995, 981, 957, 924, 882, 831, 773, 707, 634, 556, 471, 383, 290,
      195, 98, 0>>

\* cosine of k * twoPiOver64, k in 0 .. 63
CosStep(k) ==
    IF k <= 16 THEN CosTable[k + 1]
    ELSE IF k <= 32 THEN -CosTable[32 - k + 1]
    ELSE IF k <= 48 THEN -CosTable[k - 32 + 1]
    ELSE CosTable[64 - k + 1]

\* the number of twoPiOver64 steps in angle a, as a rational
StepsOf(a) == RMul(a, RInv(twoPiOver64))

TenthRadian == Rat(1, 10)

\* the angle whose cosine is 0.28 and whose sine is 0.96 (73.74 degrees)
SteepAngle == Rat(1287, 1000)

\* cosine of angle a, k its number of twoPiOver64 steps
CosOf(a, k) ==
    IF k[2] = 1 THEN CosStep(k[1] % 64)
    ELSE IF RAbs(a) = TenthRadian THEN 995
    ELSE IF RAbs(a) = SteepAngle THEN 280
    ELSE CosTable[0]          \* no other angle is in the table: an error

SinOf(a, k) ==
    IF k[2] = 1 THEN CosStep((k[1] - 16) % 64)
    ELSE IF a = TenthRadian THEN 100
    ELSE IF a = RNeg(TenthRadian) THEN -100
    ELSE IF a = SteepAngle THEN 960
    ELSE IF a = RNeg(SteepAngle) THEN -960
    ELSE CosTable[0]

Cos(a) == CosOf(a, StepsOf(a))

Sin(a) == SinOf(a, StepsOf(a))

\* q v q* for the quaternion q = (axis * sin(a/2), cos(a/2)), given c = cos a
\* and s = sin a:  ((1+c)/2 - (1-c)/2 |axis|^2) v + s (axis x v)
\*                 + (1-c) (axis . v) axis
Rotated(v, axis, s, k, ad, x) ==
    <<RoundDiv(k * v[1], 2 * VScale) + FMul(s, x[1]) + FMul(ad, axis[1]),
      RoundDiv(k * v[2], 2 * VScale) + FMul(s, x[2]) + FMul(ad, axis[2]),
      RoundDiv(k * v[3], 2 * VScale) + FMul(s, x[3]) + FMul(ad, axis[3])>>

ApplyQuaternion(v, axis, c, s) ==
    Rotated(v, axis, s, (VScale + c) - FMul(VScale - c, Dot(axis, axis)),
            FMul(VScale - c, Dot(axis, v)), Cross(axis, v))

\* Vector3.ApplyAxisAngle: the axis is taken as given (not normalised)
ApplyAxisAngle(v, axis, angle) ==
    IF IsNaNVec(v) \/ IsNaNVec(axis) THEN NaNVec
    ELSE ApplyQuaternion(v, axis, Cos(angle), Sin(angle))

(***************************************************************************)
(* FlyMovement, MouseMotion and the window package's identifiers.          *)
(***************************************************************************)
MoveForward == 0
Backward == 1
MoveRight == 2
Left == 3
MoveUp == 4
Down == 5
YawRight == 6
YawLeft == 7
PitchUp == 8
PitchDown == 9
RollRight == 10
RollLeft == 11
ZoomOut == 12
ZoomIn == 13

FlyMovement == MoveForward .. ZoomIn

MouseNone == 0
MouseRight == 1
MouseLeft == 2
MouseDown == 3
MouseUp == 4
MouseScrollRight == 5
MouseScrollLeft == 6
MouseScrollDown == 7
MouseScrollUp == 8

\* window.MouseButton
MouseButtonLeft == 0
MouseButtonRight == 1

\* the event topics of the window package
OnMouseUp == "OnMouseUp"
OnMouseDown == "OnMouseDown"
OnScroll == "OnScroll"
OnCursor == "OnCursor"
OnKeyDown == "OnKeyDown"
OnKeyRepeat == "OnKeyRepeat"

KeyTopics == {OnKeyDown, OnKeyRepeat}

MouseTopics == {OnMouseUp, OnMouseDown, OnScroll, OnCursor}

Topics == KeyTopics \cup MouseTopics

\* a Go map with no entries (also the nil map)
EmptyMap == [m \in {} |-> 0]

(***************************************************************************)
(* State.                                                                  *)
(*   fc    the FlyControl struct                                           *)
(*   cam   the controlled camera: field of view in degrees, position, the  *)
(*         last look-at and the number of look-ats pushed                  *)
(*   subs  the gui manager's subscriptions: topic -> sequence of           *)
(*         [id, cb]                                                        *)
(*   pc    "options" while NewFlyControl applies its options, "ready"      *)
(*         once it has returned                                            *)
(*   last  the operation performed by the last step: its name, its         *)
(*         arguments and the movement methods it called, each with the     *)
(*         magnitude passed and whether it took effect                     *)
(*   steps number of operations performed so far                           *)
(***************************************************************************)
VARIABLES fc, cam, subs, pc, last, steps

vars == <<fc, cam, subs, pc, last, steps>>

\* the controller, its camera and the gui manager while one operation runs,
\* with the log of the methods called
Run == [fc |-> fc, cam |-> cam, subs |-> subs, log |-> <<>>]

Logged(st, op, delta, ok) ==
    [st EXCEPT !.log = Append(@, [op |-> op, delta |-> delta, ok |-> ok])]

\* Camera.SetPositionVec
SetPositionVec(st, p) == [st EXCEPT !.cam.position = p]

\* Camera.LookAt
LookAt(st, target, up) ==
    [st EXCEPT !.cam.target = target, !.cam.up = up, !.cam.lookAts = @ + 1]

(***************************************************************************)
(* The constraint evaluator.                                               *)
(***************************************************************************)
\* constraintOk with exclusive bounds: a value equal to a bound is refused
constraintOkExclusive(f, newValue, low, high) ==
    LET minDefined == low \in DOMAIN f.Constraints
        maxDefined == high \in DOMAIN f.Constraints
    IN  IF minDefined /\ RLe(newValue, f.Constraints[low]) THEN FALSE
        ELSE IF maxDefined /\ RLe(f.Constraints[high], newValue) THEN FALSE
        ELSE TRUE

constraintOk(f, newValue, low, high) ==
    LET minDefined == low \in DOMAIN f.Constraints
        maxDefined == high \in DOMAIN f.Constraints
    IN  IF minDefined /\ RLt(newValue, f.Constraints[low]) THEN FALSE
        ELSE IF maxDefined /\ RLt(f.Constraints[high], newValue) THEN FALSE
        ELSE TRUE

whichUp(f) == IF f.useUpWorld THEN f.upWorld ELSE f.up

(***************************************************************************)
(* The frame model: the movement methods.                                  *)
(***************************************************************************)
Reposition(st, position) ==
    SetPositionVec([st EXCEPT !.fc.position = position], position)

\* Oriented without the reset of the accumulated rotation
OrientedKeepRotation(f, worldUp, forward, right) ==
    [f EXCEPT !.upWorld = worldUp,
              !.forward = forward,
              !.up = Normalize(Cross(right, forward))]

\* the frame from forward and right = normalize(forward x worldUp)
Oriented(f, worldUp, forward, right) ==
    [f EXCEPT !.rotation = <<RZero, RZero, RZero>>,
              !.upWorld = worldUp,
              !.forward = forward,
              !.up = Normalize(Cross(right, forward))]

Facing(f, worldUp, forward) ==
    Oriented(f, worldUp, forward, Normalize(Cross(forward, worldUp)))

ReorientFc(f, target, worldUp) ==
    Facing(f, worldUp, Normalize(VSub(target, f.position)))

Reorient(st, target, worldUp) ==
    [st EXCEPT !.fc = ReorientFc(st.fc, target, worldUp)]

\* position += deltaDir, pushed to the camera
Moved(st, position) ==
    SetPositionVec([st EXCEPT !.fc.position = position], position)

Forward(st, delta) ==
    Logged(Moved(st, VAdd(st.fc.position, MultiplyScalar(st.fc.forward, delta))),
           "Forward", delta, TRUE)

Right(st, delta) ==
    Logged(Moved(st, VAdd(st.fc.position,
                          MultiplyScalar(Cross(st.fc.forward, whichUp(st.fc)),
                                         delta))),
           "Right", delta, TRUE)

Up(st, delta) ==
    Logged(Moved(st, VAdd(st.fc.position, MultiplyScalar(whichUp(st.fc), delta))),
           "Up", delta, TRUE)

\* fc.cam.LookAt(fc.position.Clone().Add(&fc.forward), up), up the pointer
\* whichUp returned
LookAhead(st) == LookAt(st, VAdd(st.fc.position, st.fc.forward), whichUp(st.fc))

\* YawTo without the inversion of delta
YawToSameSign(st, delta, yaw) ==
    IF constraintOk(st.fc, yaw, YawLeft, YawRight)
    THEN Logged(LookAhead([st EXCEPT
                    !.fc.rotation[1] = yaw,
                    !.fc.forward = ApplyAxisAngle(@, whichUp(st.fc), delta)]),
                "Yaw", delta, TRUE)
    ELSE Logged(st, "Yaw", delta, FALSE)

\* Yaw with yaw = fc.rotation.X + delta
YawTo(st, delta, yaw) ==
    IF constraintOk(st.fc, yaw, YawLeft, YawRight)
    THEN Logged(LookAhead([st EXCEPT
                    !.fc.rotation[1] = yaw,
                    !.fc.forward = ApplyAxisAngle(@, whichUp(st.fc), RNeg(delta))]),
                "Yaw", delta, TRUE)
    ELSE Logged(st, "Yaw", delta, FALSE)

Yaw(st, delta) == YawTo(st, delta, RAdd(st.fc.rotation[1], delta))

\* the rotation of Pitch about right = forward x up
PitchAbout(st, delta, pitch, right) ==
    LookAhead([st EXCEPT !.fc.rotation[2] = pitch,
                         !.fc.forward = ApplyAxisAngle(@, right, delta),
                         !.fc.up = ApplyAxisAngle(@, right, delta)])

\* PitchTo with the check made on the current pitch, not the proposed one
PitchToStale(st, delta, pitch) ==
    IF constraintOk(st.fc, st.fc.rotation[2], PitchDown, PitchUp)
    THEN Logged(PitchAbout(st, delta, pitch, Cross(st.fc.forward, whichUp(st.fc))),
                "Pitch", delta, TRUE)
    ELSE Logged(st, "Pitch", delta, FALSE)

PitchTo(st, delta, pitch) ==
    IF constraintOk(st.fc, pitch, PitchDown, PitchUp)
    THEN Logged(PitchAbout(st, delta, pitch, Cross(st.fc.forward, whichUp(st.fc))),
                "Pitch", delta, TRUE)
    ELSE Logged(st, "Pitch", delta, FALSE)

Pitch(st, delta) == PitchTo(st, delta, RAdd(st.fc.rotation[2], delta))

\* RollTo turning forward about the up axis instead of up about forward
RollToAboutUp(st, delta, roll) ==
    IF constraintOk(st.fc, roll, RollLeft, RollRight)
    THEN Logged(LookAhead([st EXCEPT
                    !.fc.rotation[3] = roll,
                    !.fc.forward = ApplyAxisAngle(@, st.fc.up, delta)]),
                "Roll", delta, TRUE)
    ELSE Logged(st, "Roll", delta, FALSE)

\* RollTo with fc.rotation.Z stored before the check
RollToEager(st, delta, roll) ==
    IF constraintOk(st.fc, roll, RollLeft, RollRight)
    THEN Logged(LookAhead([st EXCEPT
                    !.fc.rotation[3] = roll,
                    !.fc.up = ApplyAxisAngle(@, st.fc.forward, delta)]),
                "Roll", delta, TRUE)
    ELSE Logged([st EXCEPT !.fc.rotation[3] = roll], "Roll", delta, FALSE)

RollTo(st, delta, roll) ==
    IF constraintOk(st.fc, roll, RollLeft, RollRight)
    THEN Logged(LookAhead([st EXCEPT
                    !.fc.rotation[3] = roll,
                    !.fc.up = ApplyAxisAngle(@, st.fc.forward, delta)]),
                "Roll", delta, TRUE)
    ELSE Logged(st, "Roll", delta, FALSE)

Roll(st, delta) == RollTo(st, delta, RAdd(st.fc.rotation[3], delta))

\* ZoomTo with a refused field of view clamped to the bound it passed
ZoomToClamped(st, op, arg, newFovRad) ==
    IF constraintOk(st.fc, newFovRad, ZoomIn, ZoomOut)
    THEN Logged([st EXCEPT !.cam.fov = RMul(newFovRad, radians)], op, arg, TRUE)
    ELSE IF ZoomIn \in DOMAIN st.fc.Constraints
            /\ RLt(newFovRad, st.fc.Constraints[ZoomIn])
    THEN Logged([st EXCEPT !.cam.fov = RMul(st.fc.Constraints[ZoomIn], radians)],
                op, arg, FALSE)
    ELSE Logged([st EXCEPT !.cam.fov = RMul(st.fc.Constraints[ZoomOut], radians)],
                op, arg, FALSE)

\* Zoom and ScaleZoom with the new field of view in radians
ZoomTo(st, op, arg, newFovRad) ==
    IF constraintOk(st.fc, newFovRad, ZoomIn, ZoomOut)
    THEN Logged([st EXCEPT !.cam.fov = RMul(newFovRad, radians)], op, arg, TRUE)
    ELSE Logged(st, op, arg, FALSE)

\* Zoom adding delta to the field of view in degrees, without the
\* conversion to radians
ZoomUnconverted(st, delta) ==
    ZoomTo(st, "Zoom", delta, RAdd(st.cam.fov, delta))

Zoom(st, delta) ==
    ZoomTo(st, "Zoom", delta, RAdd(RMul(st.cam.fov, degrees), delta))

ScaleZoom(st, fovScale) ==
    ZoomTo(st, "ScaleZoom", fovScale, RMul(RMul(st.cam.fov, degrees), fovScale))

\* UseWorldUp once fc.useUpWorld is set
Reoriented(st, changed) ==
    IF changed
    THEN Reorient(st, VAdd(st.fc.position, st.fc.forward), st.fc.upWorld)
    ELSE st

UseWorldUp(st, use) ==
    Reoriented([st EXCEPT !.fc.useUpWorld = use], st.fc.useUpWorld # use)

\* apply with the sign carried by the movement: the second member of a
\* pair negates delta
applySigned(st, movement, delta) ==
    CASE movement = MoveForward -> Forward(st, delta)
      [] movement = Backward    -> Forward(st, RNeg(delta))
      [] movement = MoveRight   -> Right(st, delta)
      [] movement = Left        -> Right(st, RNeg(delta))
      [] movement = MoveUp      -> Up(st, delta)
      [] movement = Down        -> Up(st, RNeg(delta))
      [] movement = YawRight    -> Yaw(st, delta)
      [] movement = YawLeft     -> Yaw(st, RNeg(delta))
      [] movement = PitchUp     -> Pitch(st, delta)
      [] movement = PitchDown   -> Pitch(st, RNeg(delta))
      [] movement = RollRight   -> Roll(st, delta)
      [] movement = RollLeft    -> Roll(st, RNeg(delta))
      [] movement = ZoomOut     -> Zoom(st, delta)
      [] movement = ZoomIn      -> Zoom(st, RNeg(delta))
      [] OTHER                  -> st

\* apply maps FlyMovements to the appropriate method
apply(st, movement, delta) ==
    CASE movement \in {Backward, MoveForward} -> Forward(st, delta)
      [] movement \in {Left, MoveRight}       -> Right(st, delta)
      [] movement \in {MoveUp, Down}          -> Up(st, delta)
      [] movement \in {YawLeft, YawRight}     -> Yaw(st, delta)
      [] movement \in {PitchUp, PitchDown}    -> Pitch(st, delta)
      [] movement \in {RollLeft, RollRight}   -> Roll(st, delta)
      [] movement \in {ZoomIn, ZoomOut}       -> Zoom(st, delta)
      [] OTHER                                -> st

(***************************************************************************)
(* The event resolver: transient input state and the event listeners.      *)
(***************************************************************************)
\* a + b in place of a ^ b
BitSum(a, b) == a + b

RECURSIVE BitXor(_, _)
BitXor(a, b) ==
    IF a = 0 THEN b
    ELSE IF b = 0 THEN a
    ELSE 2 * BitXor(a \div 2, b \div 2) + ((a + b) % 2)

\* 1 << n
Shl(n) == 2 ^ n

\* the unset previous cursor position (NaN, NaN)
Unset == <<>>

\* SetMouseIsCaptured without the reset of the previous cursor position
SetMouseIsCapturedKeep(st, captured) ==
    [st EXCEPT !.fc.mouseIsCaptured = captured]

SetMouseIsCaptured(st, captured) ==
    [st EXCEPT !.fc.mouseIsCaptured = captured, !.fc.mousePrevPos = Unset]

\* toggleMouseButton setting the bit (|=) instead of toggling it
toggleMouseButtonSet(f, button) ==
    [f EXCEPT !.mouseBtnState =
        IF (@ \div Shl(button)) % 2 = 1 THEN @ ELSE @ + Shl(button)]

toggleMouseButton(f, button) ==
    [f EXCEPT !.mouseBtnState = BitXor(@, Shl(button))]

RECURSIVE ButtonBits(_)
ButtonBits(buttons) ==
    IF buttons = <<>> THEN 0
    ELSE BitXor(ButtonBits(Tail(buttons)), Shl(Head(buttons)))

mouseButtonsPressed(f, buttons) ==
    IF f.mouseBtnState = 0 /\ Len(buttons) = 0 THEN TRUE
    ELSE f.mouseBtnState = ButtonBits(buttons)

resetMousePrevPosition(f) == [f EXCEPT !.mousePrevPos = Unset]

isMousePrevPositionUnset(f) == f.mousePrevPos = Unset

\* Speeds[m]: the zero value when m has no entry
SpeedOf(f, m) == IF m \in DOMAIN f.Speeds THEN f.Speeds[m] ELSE RZero

\* all orders in which a range over a map with key set S can run
RECURSIVE Orders(_)
Orders(S) ==
    IF S = {} THEN {<<>>}
    ELSE UNION {{<<m>> \o o : o \in Orders(S \ {m})} : m \in S}

\* onMouse is called when an OnMouseDown/OnMouseUp event is received
onMouse(st, ev) ==
    {Logged([st EXCEPT !.fc = toggleMouseButton(st.fc, ev.Button)],
            "onMouse", RZero, TRUE)}

\* one of the two tests of the loop over fc.Mouse (shared by onCursor and
\* onScroll): movement m is applied when its gesture's chord and capture
\* state hold and its Motion is the motion classified, with magnitude a
GestureApply(st, m, hold, motion, a) ==
    IF hold /\ st.fc.Mouse[m].Motion = motion
    THEN apply(st, m, RMul(a, SpeedOf(st.fc, m)))
    ELSE st

\* pressed alone: the capture requirement of gesture m left untested
HoldsAnyCapture(f, m) == mouseButtonsPressed(f, f.Mouse[m].Buttons)

\* pressed && captured of gesture m
Holds(f, m) ==
    /\ mouseButtonsPressed(f, f.Mouse[m].Buttons)
    /\ f.Mouse[m].Captured = f.mouseIsCaptured

\* the loop over fc.Mouse for the movements in order: motions mx and my,
\* magnitudes ax and ay
RECURSIVE GestureLoop(_, _, _, _, _, _)
GestureLoop(st, order, mx, my, ax, ay) ==
    IF order = <<>> THEN st
    ELSE GestureLoop(
            GestureApply(
                GestureApply(st, Head(order), Holds(st.fc, Head(order)), mx, ax),
                Head(order), Holds(st.fc, Head(order)), my, ay),
            Tail(order), mx, my, ax, ay)

\* the movements whose gesture can act in a loop with motions mx and my; the
\* loop does nothing for the others, whatever their place in the order
Acting(f, mx, my) ==
    {m \in DOMAIN f.Mouse : Holds(f, m) /\ f.Mouse[m].Motion \in {mx, my}}

\* 'magic' number to help mouse sensitivity be realistic in [0,1]
moderator == Rat(1, 4)

\* the classification of a cursor or scroll delta
Motion(d, positive, negative) ==
    IF d # RZero THEN (IF RLt(RZero, d) THEN positive ELSE negative)
    ELSE MouseNone

\* the loop over fc.Mouse in every order
Gestures(st, mx, my, ax, ay) ==
    {GestureLoop(st, o, mx, my, ax, ay) : o \in Orders(Acting(st.fc, mx, my))}

\* onCursor leaving mousePrevPos as it was
CursorMovedStale(st, ev, dx, dy) ==
    Gestures(Logged(st, "onCursor", RZero, TRUE),
             Motion(dx, MouseRight, MouseLeft), Motion(dy, MouseDown, MouseUp),
             RAbs(dx), RAbs(dy))

\* onCursor once mousePrevPos is set: the deltas against prev
CursorMoved(st, ev, dx, dy) ==
    Gestures(Logged([st EXCEPT !.fc.mousePrevPos = <<ev.Xpos, ev.Ypos>>],
                    "onCursor", RZero, TRUE),
             Motion(dx, MouseRight, MouseLeft), Motion(dy, MouseDown, MouseUp),
             RAbs(dx), RAbs(dy))

CursorFrom(st, ev, prev) ==
    CursorMoved(st, ev,
        RMul(RMul(RSub(ev.Xpos, prev[1]), moderator), st.fc.mouseSensitivity),
        RMul(RMul(RSub(ev.Ypos, prev[2]), moderator), st.fc.mouseSensitivity))

\* onCursor is called when an OnCursor event is received
onCursor(st, ev) ==
    CursorFrom(st, ev, IF isMousePrevPositionUnset(st.fc)
                       THEN <<ev.Xpos, ev.Ypos>>
                       ELSE st.fc.mousePrevPos)

\* onScroll is called when an OnScroll event is received
onScroll(st, ev) ==
    Gestures(Logged(st, "onScroll", RZero, TRUE),
             Motion(ev.Xoffset, MouseScrollRight, MouseScrollLeft),
             Motion(ev.Yoffset, MouseScrollUp, MouseScrollDown),
             RAbs(ev.Xoffset), RAbs(ev.Yoffset))

\* the movements bound to a key
BoundTo(f, key) == {m \in DOMAIN f.Keys : f.Keys[m] = key}

\* onKey applying the movement found twice
onKeyTwice(st, ev) ==
    IF BoundTo(st.fc, ev.Key) = {} THEN {Logged(st, "onKey", RZero, TRUE)}
    ELSE {apply(apply(Logged(st, "onKey", RZero, TRUE), movement,
                      SpeedOf(st.fc, movement)),
                movement, SpeedOf(st.fc, movement)) :
            movement \in BoundTo(st.fc, ev.Key)}

\* onKey is called when an OnKeyDown/OnKeyRepeat event is received; the
\* range over fc.Keys stops at any movement bound to the key
onKey(st, ev) ==
    IF BoundTo(st.fc, ev.Key) = {} THEN {Logged(st, "onKey", RZero, TRUE)}
    ELSE {apply(Logged(st, "onKey", RZero, TRUE), movement,
                SpeedOf(st.fc, movement)) : movement \in BoundTo(st.fc, ev.Key)}

(***************************************************************************)
(* The gui manager's dispatcher: subscriptions by topic and identity.      *)
(***************************************************************************)
\* the identity the controller subscribes with: the *FlyControl
FcId == "fc"

SubscribeID(sb, evname, id, cb) ==
    [sb EXCEPT ![evname] = Append(@, [id |-> id, cb |-> cb])]

UnsubscribeID(sb, evname, id) ==
    [sb EXCEPT ![evname] = SelectSeq(@, LAMBDA r : r.id # id)]

\* one callback invoked on one event
Callback(cb, st, ev) ==
    CASE cb = "onKey"    -> onKey(st, ev)
      [] cb = "onMouse"  -> onMouse(st, ev)
      [] cb = "onCursor" -> onCursor(st, ev)
      [] cb = "onScroll" -> onScroll(st, ev)

\* Dispatch: every subscription of the topic is called, in order
RECURSIVE Dispatch(_, _, _)
Dispatch(S, regs, ev) ==
    IF regs = <<>> THEN S
    ELSE Dispatch(UNION {Callback(Head(regs).cb, st, ev) : st \in S},
                  Tail(regs), ev)

\* subscribe without the isKeySubscribed / isMouseSubscribed guards
subscribeAlways(st, key, mouse) ==
    LET s1 == IF key
              THEN [st EXCEPT
                      !.subs = SubscribeID(SubscribeID(@, OnKeyDown, FcId, "onKey"),
                                           OnKeyRepeat, FcId, "onKey"),
                      !.fc.isKeySubscribed = TRUE]
              ELSE st
    IN  IF mouse
        THEN [s1 EXCEPT
                !.subs = SubscribeID(SubscribeID(SubscribeID(SubscribeID(@,
                            OnMouseUp, FcId, "onMouse"),
                            OnMouseDown, FcId, "onMouse"),
                            OnScroll, FcId, "onScroll"),
                            OnCursor, FcId, "onCursor"),
                !.fc.isMouseSubscribed = TRUE]
        ELSE s1

\* subscribe to input events. A value of false for either key or mouse does
\* not unsubscribe from that type of event
subscribe(st, key, mouse) ==
    LET s1 == IF key /\ ~st.fc.isKeySubscribed
              THEN [st EXCEPT
                      !.subs = SubscribeID(SubscribeID(@, OnKeyDown, FcId, "onKey"),
                                           OnKeyRepeat, FcId, "onKey"),
                      !.fc.isKeySubscribed = TRUE]
              ELSE st
    IN  IF mouse /\ ~s1.fc.isMouseSubscribed
        THEN [s1 EXCEPT
                !.subs = SubscribeID(SubscribeID(SubscribeID(SubscribeID(@,
                            OnMouseUp, FcId, "onMouse"),
                            OnMouseDown, FcId, "onMouse"),
                            OnScroll, FcId, "onScroll"),
                            OnCursor, FcId, "onCursor"),
                !.fc.isMouseSubscribed = TRUE]
        ELSE s1

\* unsubscribe leaving the two flags as they were
unsubscribeKeepFlags(st, key, mouse) ==
    LET s1 == IF key
              THEN [st EXCEPT
                      !.subs = UnsubscribeID(UnsubscribeID(@, OnKeyDown, FcId),
                                             OnKeyRepeat, FcId)]
              ELSE st
    IN  IF mouse
        THEN [s1 EXCEPT
                !.subs = UnsubscribeID(UnsubscribeID(UnsubscribeID(UnsubscribeID(@,
                            OnMouseUp, FcId), OnMouseDown, FcId), OnScroll, FcId),
                            OnCursor, FcId)]
        ELSE s1

\* unsubscribe from input events
unsubscribe(st, key, mouse) ==
    LET s1 == IF key
              THEN [st EXCEPT
                      !.subs = UnsubscribeID(UnsubscribeID(@, OnKeyDown, FcId),
                                             OnKeyRepeat, FcId),
                      !.fc.isKeySubscribed = FALSE]
              ELSE st
    IN  IF mouse
        THEN [s1 EXCEPT
                !.subs = UnsubscribeID(UnsubscribeID(UnsubscribeID(UnsubscribeID(@,
                            OnMouseUp, FcId), OnMouseDown, FcId), OnScroll, FcId),
                            OnCursor, FcId),
                !.fc.isMouseSubscribed = FALSE]
        ELSE s1

\* Dispose unsubscribes from all events
Dispose(st) == unsubscribe(st, TRUE, TRUE)

(***************************************************************************)
(* The options and the two presets.                                        *)
(***************************************************************************)
WithSpeeds(st, speeds) == [st EXCEPT !.fc.Speeds = speeds]

WithKeys(st, keys) == subscribe([st EXCEPT !.fc.Keys = keys], TRUE, FALSE)

WithMouse(st, mouse) == subscribe([st EXCEPT !.fc.Mouse = mouse], FALSE, TRUE)

WithConstraints(st, constraints) == [st EXCEPT !.fc.Constraints = constraints]

\* a MouseGuesture literal; Captured is false when the literal omits it
Gesture(motion, buttons, captured) ==
    [Motion |-> motion, Buttons |-> buttons, Captured |-> captured]

\* a Go map literal from a set of <<key, value>> pairs
MapOf(pairs) ==
    [m \in {p[1] : p \in pairs} |-> (CHOOSE p \in pairs : p[1] = m)[2]]

\* the preset table with the look-around gestures requiring capture
PresetMouseCaptured ==
    MapOf({<<YawRight, Gesture(MouseRight, <<MouseButtonLeft>>, TRUE)>>,
           <<YawLeft, Gesture(MouseLeft, <<MouseButtonLeft>>, TRUE)>>,
           <<PitchUp, Gesture(MouseUp, <<MouseButtonLeft>>, TRUE)>>,
           <<PitchDown, Gesture(MouseDown, <<MouseButtonLeft>>, TRUE)>>,
           <<ZoomIn, Gesture(MouseScrollUp, <<>>, FALSE)>>,
           <<ZoomOut, Gesture(MouseScrollDown, <<>>, FALSE)>>})

\* the WithMouse table of FPSStyle and of FlightSimStyle
PresetMouse ==
    MapOf({<<YawRight, Gesture(MouseRight, <<MouseButtonLeft>>, FALSE)>>,
           <<YawLeft, Gesture(MouseLeft, <<MouseButtonLeft>>, FALSE)>>,
           <<PitchUp, Gesture(MouseUp, <<MouseButtonLeft>>, FALSE)>>,
           <<PitchDown, Gesture(MouseDown, <<MouseButtonLeft>>, FALSE)>>,
           <<ZoomIn, Gesture(MouseScrollUp, <<>>, FALSE)>>,
           <<ZoomOut, Gesture(MouseScrollDown, <<>>, FALSE)>>})

\* the FPS key table with the roll bindings it leaves commented out
FPSKeysWithRoll ==
    MapOf({<<MoveForward, "KeyUp">>, <<Backward, "KeyDown">>,
           <<MoveRight, "KeyRight">>, <<Left, "KeyLeft">>,
           <<YawRight, "KeyD">>, <<YawLeft, "KeyA">>,
           <<PitchUp, "KeyW">>, <<PitchDown, "KeyS">>,
           <<RollRight, "KeyE">>, <<RollLeft, "KeyQ">>,
           <<ZoomOut, "KeyMinus">>, <<ZoomIn, "KeyEqual">>})

FPSKeys ==
    MapOf({<<MoveForward, "KeyUp">>, <<Backward, "KeyDown">>,
           <<MoveRight, "KeyRight">>, <<Left, "KeyLeft">>,
           <<YawRight, "KeyD">>, <<YawLeft, "KeyA">>,
           <<PitchUp, "KeyW">>, <<PitchDown, "KeyS">>,
           <<ZoomOut, "KeyMinus">>, <<ZoomIn, "KeyEqual">>})

FPSSpeeds ==
    MapOf({<<MoveForward, RInt(1)>>, <<Backward, RInt(-1)>>,
           <<MoveRight, RInt(1)>>, <<Left, RInt(-1)>>,
           <<YawRight, twoPiOver64>>, <<YawLeft, RNeg(twoPiOver64)>>,
           <<PitchUp, twoPiOver64>>, <<PitchDown, RNeg(twoPiOver64)>>,
           <<ZoomOut, twoPiOver64>>, <<ZoomIn, RNeg(twoPiOver64)>>})

FPSConstraints ==
    MapOf({<<PitchUp, Deg(85)>>, <<PitchDown, RNeg(Deg(85))>>,
           <<ZoomOut, Deg(100)>>, <<ZoomIn, Deg(1)>>})

FPSStyle(st) ==
    WithConstraints(WithSpeeds(WithMouse(WithKeys(UseWorldUp(st, TRUE),
        FPSKeys), PresetMouse), FPSSpeeds), FPSConstraints)

FlightSimKeys ==
    MapOf({<<MoveForward, "KeyUp">>, <<Backward, "KeyDown">>,
           <<MoveRight, "KeyRight">>, <<Left, "KeyLeft">>,
           <<MoveUp, "KeyPageUp">>, <<Down, "KeyPageDown">>,
           <<YawRight, "KeyD">>, <<YawLeft, "KeyA">>,
           <<PitchUp, "KeyW">>, <<PitchDown, "KeyS">>,
           <<RollRight, "KeyE">>, <<RollLeft, "KeyQ">>,
           <<ZoomOut, "KeyMinus">>, <<ZoomIn, "KeyEqual">>})

FlightSimSpeeds ==
    MapOf({<<MoveForward, RInt(1)>>, <<Backward, RInt(-1)>>,
           <<MoveRight, RInt(1)>>, <<Left, RInt(-1)>>,
           <<MoveUp, RInt(1)>>, <<Down, RInt(-1)>>,
           <<YawRight, twoPiOver64>>, <<YawLeft, RNeg(twoPiOver64)>>,
           <<PitchUp, twoPiOver64>>, <<PitchDown, RNeg(twoPiOver64)>>,
           <<RollRight, twoPiOver64>>, <<RollLeft, RNeg(twoPiOver64)>>,
           <<ZoomOut, twoPiOver64>>, <<ZoomIn, RNeg(twoPiOver64)>>})

FlightSimConstraints == MapOf({<<ZoomOut, Deg(100)>>, <<ZoomIn, Deg(1)>>})

FlightSimStyle(st) ==
    WithConstraints(WithSpeeds(WithMouse(WithKeys(UseWorldUp(st, FALSE),
        FlightSimKeys), PresetMouse), FlightSimSpeeds), FlightSimConstraints)

(***************************************************************************)
(* Inputs of the model: the arguments of the calls, the events delivered   *)
(* and the tables passed to the options.                                   *)
(***************************************************************************)
InitTargets == {Vec(0, 0, -1)}

InitWorldUps == {Vec(0, 1, 0)}

InitFovs == {RInt(60)}

TranslateDeltas == {RInt(1)}

RotateDeltas == {RZero, Deg(45), Deg(90), RNeg(Deg(90))}

ZoomDeltas == {Deg(40), Deg(50), RNeg(Deg(50))}

ZoomScales == {Rat(1, 2), RInt(2)}

ReorientTargets == {Vec(0, 4, -3), Vec(1, 0, 0)}

RepositionPoints == {Vec(0, 0, 2)}

KeysIn == {"KeyW", "KeyD", "KeyUp", "KeyEqual", "KeyE", "KeySpace"}

KeyEventsIn ==
    {<<OnKeyDown, k>> : k \in KeysIn} \cup {<<OnKeyRepeat, "KeyW">>}

ButtonsIn == {MouseButtonLeft, MouseButtonRight}

CursorsIn == {<<RZero, RZero>>, <<RInt(128), RZero>>, <<RInt(128), RInt(8)>>}

ScrollsIn == {<<RZero, RInt(1)>>, <<RZero, RInt(-1)>>, <<RInt(1), RZero>>}

\* tables for WithConstraints: bounds in radians on both sides of zero with
\* one sided entries, and a table whose low pitch bound is above zero
CustomConstraints ==
    {MapOf({<<YawLeft, RInt(-1)>>, <<YawRight, RInt(1)>>,
            <<PitchUp, Deg(45)>>, <<RollLeft, RNeg(Deg(45))>>}),
     MapOf({<<PitchDown, Deg(10)>>, <<PitchUp, Deg(80)>>})}

\* a table for WithSpeeds with large steps
CustomSpeeds ==
    {MapOf({<<MoveForward, RInt(1)>>, <<Backward, RInt(-1)>>,
            <<YawRight, Deg(45)>>, <<YawLeft, RNeg(Deg(45))>>,
            <<PitchUp, Deg(45)>>, <<PitchDown, RNeg(Deg(45))>>,
            <<RollRight, Deg(90)>>,
            <<ZoomOut, Deg(50)>>, <<ZoomIn, RNeg(Deg(50))>>})}

\* a table for WithMouse with captured gestures, a two button chord and a
\* gesture whose Motion is MouseNone
CustomMouse ==
    {MapOf({<<YawRight, Gesture(MouseRight, <<>>, TRUE)>>,
            <<PitchDown, Gesture(MouseDown, <<>>, TRUE)>>,
            <<PitchUp, Gesture(MouseUp, <<MouseButtonLeft, MouseButtonRight>>, FALSE)>>,
            <<MoveForward, Gesture(MouseNone, <<>>, FALSE)>>,
            <<ZoomIn, Gesture(MouseScrollUp, <<>>, TRUE)>>})}

\* a table for WithKeys with two movements on one key
CustomKeys ==
    {MapOf({<<MoveForward, "KeyUp">>, <<PitchUp, "KeyW">>, <<RollRight, "KeyW">>,
            <<YawRight, "KeyD">>})}

(***************************************************************************)
(* NewFlyControl up to its loop over the options.                          *)
(***************************************************************************)
NewFc(position, target, worldUp) ==
    ReorientFc([position         |-> position,
                rotation         |-> <<RZero, RZero, RZero>>,
                forward          |-> Vec(0, 0, 0),
                up               |-> Vec(0, 0, 0),
                upWorld          |-> Vec(0, 0, 0),
                useUpWorld       |-> FALSE,
                mouseIsCaptured  |-> FALSE,
                mousePrevPos     |-> Unset,
                mouseBtnState    |-> 0,
                mouseSensitivity |-> Rat(1, 2),
                isKeySubscribed  |-> FALSE,
                isMouseSubscribed |-> FALSE,
                Constraints      |-> EmptyMap,
                Speeds           |-> EmptyMap,
                Keys             |-> EmptyMap,
                Mouse            |-> EmptyMap],
               target, worldUp)

NewCam(fov) ==
    [fov |-> fov, position |-> Vec(0, 0, 0), target |-> Vec(0, 0, 0),
     up |-> Vec(0, 1, 0), lookAts |-> 0]

Init ==
    /\ \E target \in InitTargets, worldUp \in InitWorldUps :
          fc = NewFc(Vec(0, 0, 0), target, worldUp)
    /\ \E fov \in InitFovs : cam = NewCam(fov)
    /\ subs = [t \in Topics |-> <<>>]
    /\ pc = "options"
    /\ last = [op |-> "NewFlyControl", args |-> <<>>, calls |-> <<>>,
               prev |-> [op |-> "", args |-> <<>>, calls |-> <<>>]]
    /\ steps = 0

\* the step of one operation: its effect st, its name and its arguments
Commit(st, op, args) ==
    /\ fc' = st.fc
    /\ cam' = st.cam
    /\ subs' = st.subs
    /\ last' = [op |-> op, args |-> args, calls |-> st.log,
                prev |-> [op |-> last.op, args |-> last.args, calls |-> last.calls]]
    /\ steps' = steps + 1
    /\ pc' = pc

(***************************************************************************)
(* NewFlyControl's loop over its options, and its return.                  *)
(***************************************************************************)
Option == pc = "options" /\ steps < MaxSteps

OptFPSStyle == Option /\ Commit(FPSStyle(Run), "FPSStyle", <<>>)

OptFlightSimStyle == Option /\ Commit(FlightSimStyle(Run), "FlightSimStyle", <<>>)

OptWithKeys ==
    Option /\ \E keys \in CustomKeys : Commit(WithKeys(Run, keys), "WithKeys", <<>>)

OptWithMouse ==
    Option /\ \E mouse \in CustomMouse :
        Commit(WithMouse(Run, mouse), "WithMouse", <<>>)

OptWithSpeeds ==
    Option /\ \E speeds \in CustomSpeeds :
        Commit(WithSpeeds(Run, speeds), "WithSpeeds", <<>>)

OptWithConstraints ==
    Option /\ \E constraints \in CustomConstraints :
        Commit(WithConstraints(Run, constraints), "WithConstraints", <<>>)

Return ==
    /\ pc = "options"
    /\ pc' = "ready"
    /\ UNCHANGED <<fc, cam, subs, last, steps>>

(***************************************************************************)
(* Calls of the controller's methods.                                      *)
(***************************************************************************)
Ready == pc = "ready" /\ steps < MaxSteps

CallForward == Ready /\ \E d \in TranslateDeltas : Commit(Forward(Run, d), "Forward", <<d>>)

CallRight == Ready /\ \E d \in TranslateDeltas : Commit(Right(Run, d), "Right", <<d>>)

CallUp == Ready /\ \E d \in TranslateDeltas : Commit(Up(Run, d), "Up", <<d>>)

CallYaw == Ready /\ \E d \in RotateDeltas : Commit(Yaw(Run, d), "Yaw", <<d>>)

CallPitch == Ready /\ \E d \in RotateDeltas : Commit(Pitch(Run, d), "Pitch", <<d>>)

CallRoll == Ready /\ \E d \in RotateDeltas : Commit(Roll(Run, d), "Roll", <<d>>)

CallZoom == Ready /\ \E d \in ZoomDeltas : Commit(Zoom(Run, d), "Zoom", <<d>>)

CallScaleZoom ==
    Ready /\ \E k \in ZoomScales : Commit(ScaleZoom(Run, k), "ScaleZoom", <<k>>)

CallReorient ==
    Ready /\ \E target \in ReorientTargets, worldUp \in InitWorldUps :
        Commit(Reorient(Run, target, worldUp), "Reorient", <<target, worldUp>>)

CallReposition ==
    Ready /\ \E p \in RepositionPoints : Commit(Reposition(Run, p), "Reposition", <<p>>)

CallUseWorldUp ==
    Ready /\ \E use \in BOOLEAN : Commit(UseWorldUp(Run, use), "UseWorldUp", <<use>>)

CallSetMouseIsCaptured ==
    Ready /\ \E captured \in BOOLEAN :
        Commit(SetMouseIsCaptured(Run, captured), "SetMouseIsCaptured", <<captured>>)

CallDispose == Ready /\ Commit(Dispose(Run), "Dispose", <<>>)

(***************************************************************************)
(* Events published on the gui manager.                                    *)
(***************************************************************************)
Publish(evname, ev, args) ==
    \E st \in Dispatch({Run}, subs[evname], ev) : Commit(st, evname, args)

KeyEvent ==
    Ready /\ \E e \in KeyEventsIn : Publish(e[1], [Key |-> e[2]], <<e[2]>>)

MouseDownEvent ==
    Ready /\ \E b \in ButtonsIn : Publish(OnMouseDown, [Button |-> b], <<b>>)

MouseUpEvent ==
    Ready /\ \E b \in ButtonsIn : Publish(OnMouseUp, [Button |-> b], <<b>>)

CursorEvent ==
    Ready /\ \E c \in CursorsIn :
        Publish(OnCursor, [Xpos |-> c[1], Ypos |-> c[2]], c)

ScrollEvent ==
    Ready /\ \E c \in ScrollsIn :
        Publish(OnScroll, [Xoffset |-> c[1], Yoffset |-> c[2]], c)

Next ==
    \/ OptFPSStyle
    \/ OptFlightSimStyle
    \/ OptWithKeys
    \/ OptWithMouse
    \/ OptWithSpeeds
    \/ OptWithConstraints
    \/ Return
    \/ CallForward
    \/ CallRight
    \/ CallUp
    \/ CallYaw
    \/ CallPitch
    \/ CallRoll
    \/ CallZoom
    \/ CallScaleZoom
    \/ CallReorient
    \/ CallReposition
    \/ CallUseWorldUp
    \/ CallSetMouseIsCaptured
    \/ CallDispose
    \/ KeyEvent
    \/ MouseDownEvent
    \/ MouseUpEvent
    \/ CursorEvent
    \/ ScrollEvent

Spec == Init /\ [][Next]_vars


(***************************************************************************)
(* The earlier controller, src/camera/fly_control.go: the tables are built *)
(* by the constructor, a gesture names one button, there is no world-up    *)
(* mode, and the space key toggles the capture of the cursor.              *)
(* constraintOk, Reorient, Reposition, Forward, Zoom and ScaleZoom read    *)
(* the same in both revisions and are shared.                              *)
(***************************************************************************)
MouseButtonNone == -1

LegacyGesture(motion, button) == [Motion |-> motion, Button |-> button]

LegacySpeeds ==
    MapOf({<<MoveForward, RInt(1)>>, <<Backward, RInt(-1)>>,
           <<MoveRight, RInt(1)>>, <<Left, RInt(-1)>>,
           <<MoveUp, RInt(1)>>, <<Down, RInt(-1)>>,
           <<YawRight, TenthRadian>>, <<YawLeft, RNeg(TenthRadian)>>,
           <<PitchUp, TenthRadian>>, <<PitchDown, RNeg(TenthRadian)>>,
           <<RollRight, TenthRadian>>, <<RollLeft, RNeg(TenthRadian)>>,
           <<ZoomOut, TenthRadian>>, <<ZoomIn, RNeg(TenthRadian)>>})

LegacyKeys ==
    MapOf({<<MoveForward, "KeyUp">>, <<Backward, "KeyDown">>,
           <<MoveRight, "KeyRight">>, <<Left, "KeyLeft">>,
           <<MoveUp, "KeyPageUp">>, <<Down, "KeyPageDown">>,
           <<YawRight, "KeyD">>, <<YawLeft, "KeyA">>,
           <<PitchUp, "KeyW">>, <<PitchDown, "KeyS">>,
           <<RollRight, "KeyE">>, <<RollLeft, "KeyQ">>,
           <<ZoomOut, "KeyMinus">>, <<ZoomIn, "KeyEqual">>})

LegacyConstraints ==
    MapOf({<<PitchUp, Deg(90)>>, <<PitchDown, RNeg(Deg(90))>>,
           <<RollRight, Deg(45)>>, <<RollLeft, RNeg(Deg(45))>>,
           <<ZoomOut, Deg(100)>>, <<ZoomIn, Deg(1)>>})

LegacyMouse ==
    MapOf({<<YawRight, LegacyGesture(MouseRight, MouseButtonNone)>>,
           <<YawLeft, LegacyGesture(MouseLeft, MouseButtonNone)>>,
           <<PitchUp, LegacyGesture(MouseUp, MouseButtonNone)>>,
           <<PitchDown, LegacyGesture(MouseDown, MouseButtonNone)>>,
           <<ZoomIn, LegacyGesture(MouseScrollUp, MouseButtonRight)>>,
           <<ZoomOut, LegacyGesture(MouseScrollDown, MouseButtonRight)>>})

\* &fc in NewFlyControl: the address of its local variable fc
ConstructorFcAddr == "&fc (NewFlyControl)"

\* &fc in Dispose: the address of the receiver variable of that call
DisposeFcAddr == "&fc (Dispose)"

LegacySubscribed ==
    SubscribeID(SubscribeID(SubscribeID(SubscribeID(SubscribeID(SubscribeID(
        [t \in Topics |-> <<>>],
        OnMouseUp, ConstructorFcAddr, "onMouse"),
        OnMouseDown, ConstructorFcAddr, "onMouse"),
        OnScroll, ConstructorFcAddr, "onScroll"),
        OnCursor, ConstructorFcAddr, "onCursor"),
        OnKeyDown, ConstructorFcAddr, "onKey"),
        OnKeyRepeat, ConstructorFcAddr, "onKey")

LegacyNewFc(position, target, worldUp) ==
    ReorientFc([position         |-> position,
                rotation         |-> <<RZero, RZero, RZero>>,
                forward          |-> Vec(0, 0, 0),
                up               |-> Vec(0, 0, 0),
                upWorld          |-> Vec(0, 0, 0),
                mouseIsCaptured  |-> FALSE,
                mousePrevPos     |-> Unset,
                mouseBtnState    |-> 0,
                mouseSensitivity |-> Rat(1, 2),
                Constraints      |-> LegacyConstraints,
                Speeds           |-> LegacySpeeds,
                Keys             |-> LegacyKeys,
                Mouse            |-> LegacyMouse],
               target, worldUp)

\* Dispose unsubscribes from all events
LegacyDispose(st) ==
    [st EXCEPT !.subs =
        UnsubscribeID(UnsubscribeID(UnsubscribeID(UnsubscribeID(UnsubscribeID(
        UnsubscribeID(@,
            OnMouseUp, DisposeFcAddr),
            OnMouseDown, DisposeFcAddr),
            OnScroll, DisposeFcAddr),
            OnCursor, DisposeFcAddr),
            OnKeyDown, DisposeFcAddr),
            OnKeyRepeat, DisposeFcAddr)]

LegacyRight(st, delta) ==
    Logged(Moved(st, VAdd(st.fc.position,
                          MultiplyScalar(Cross(st.fc.forward, st.fc.up), delta))),
           "Right", delta, TRUE)

LegacyUp(st, delta) ==
    Logged(Moved(st, VAdd(st.fc.position, MultiplyScalar(st.fc.up, delta))),
           "Up", delta, TRUE)

\* fc.cam.LookAt(fc.position.Clone().Add(&fc.forward), &fc.up)
LegacyLookAhead(st) == LookAt(st, VAdd(st.fc.position, st.fc.forward), st.fc.up)

LegacyYawTo(st, delta, yaw) ==
    IF constraintOk(st.fc, yaw, YawLeft, YawRight)
    THEN Logged(LegacyLookAhead([st EXCEPT
                    !.fc.rotation[1] = yaw,
                    !.fc.forward = ApplyAxisAngle(@, st.fc.up, RNeg(delta))]),
                "Yaw", delta, TRUE)
    ELSE Logged(st, "Yaw", delta, FALSE)

LegacyYaw(st, delta) == LegacyYawTo(st, delta, RAdd(st.fc.rotation[1], delta))

LegacyPitchTo(st, delta, pitch) ==
    IF constraintOk(st.fc, pitch, PitchDown, PitchUp)
    THEN Logged(LegacyLookAhead([st EXCEPT
                    !.fc.rotation[2] = pitch,
                    !.fc.forward =
                        ApplyAxisAngle(@, Cross(st.fc.forward, st.fc.up), delta),
                    !.fc.up =
                        ApplyAxisAngle(@, Cross(st.fc.forward, st.fc.up), delta)]),
                "Pitch", delta, TRUE)
    ELSE Logged(st, "Pitch", delta, FALSE)

LegacyPitch(st, delta) == LegacyPitchTo(st, delta, RAdd(st.fc.rotation[2], delta))

LegacyRollTo(st, delta, roll) ==
    IF constraintOk(st.fc, roll, RollLeft, RollRight)
    THEN Logged(LegacyLookAhead([st EXCEPT
                    !.fc.rotation[3] = roll,
                    !.fc.up = ApplyAxisAngle(@, st.fc.forward, delta)]),
                "Roll", delta, TRUE)
    ELSE Logged(st, "Roll", delta, FALSE)

LegacyRoll(st, delta) == LegacyRollTo(st, delta, RAdd(st.fc.rotation[3], delta))

LegacyApply(st, movement, delta) ==
    CASE movement \in {Backward, MoveForward} -> Forward(st, delta)
      [] movement \in {Left, MoveRight}       -> LegacyRight(st, delta)
      [] movement \in {MoveUp, Down}          -> LegacyUp(st, delta)
      [] movement \in {YawLeft, YawRight}     -> LegacyYaw(st, delta)
      [] movement \in {PitchUp, PitchDown}    -> LegacyPitch(st, delta)
      [] movement \in {RollLeft, RollRight}   -> LegacyRoll(st, delta)
      [] movement \in {ZoomIn, ZoomOut}       -> Zoom(st, delta)
      [] OTHER                                -> st

\* a & b on unsigned integers
RECURSIVE BitAnd(_, _)
BitAnd(a, b) ==
    IF a = 0 \/ b = 0 THEN 0
    ELSE 2 * BitAnd(a \div 2, b \div 2) + ((a % 2) * (b % 2))

enableMouseCapture(st, enable) == [st EXCEPT !.fc.mouseIsCaptured = enable]

LegacyToggleMouseButton(f, button) ==
    [f EXCEPT !.mouseBtnState = BitXor(@, Shl(1 + button))]

mouseButtonPressed(f, button) ==
    IF button = MouseButtonNone /\ f.mouseBtnState = 0 THEN TRUE
    ELSE BitAnd(f.mouseBtnState, Shl(1 + button)) = Shl(1 + button)

LegacyOnMouse(st, ev) ==
    {Logged([st EXCEPT !.fc = LegacyToggleMouseButton(st.fc, ev.Button)],
            "onMouse", RZero, TRUE)}

\* one of the two tests of the loop over fc.Mouse
LegacyGestureApply(st, m, pressed, motion, a) ==
    IF st.fc.Mouse[m].Motion = motion /\ pressed
    THEN LegacyApply(st, m, RMul(a, SpeedOf(st.fc, m)))
    ELSE st

RECURSIVE LegacyGestureLoop(_, _, _, _, _, _)
LegacyGestureLoop(st, order, mx, my, ax, ay) ==
    IF order = <<>> THEN st
    ELSE LegacyGestureLoop(
            LegacyGestureApply(
                LegacyGestureApply(st, Head(order),
                    mouseButtonPressed(st.fc, st.fc.Mouse[Head(order)].Button),
                    mx, ax),
                Head(order),
                mouseButtonPressed(st.fc, st.fc.Mouse[Head(order)].Button),
                my, ay),
            Tail(order), mx, my, ax, ay)

\* the movements whose gesture can act on motions mx and my
LegacyActing(f, mx, my) ==
    {m \in DOMAIN f.Mouse :
        /\ mouseButtonPressed(f, f.Mouse[m].Button)
        /\ f.Mouse[m].Motion \in {mx, my}}

LegacyGestures(st, mx, my, ax, ay) ==
    {LegacyGestureLoop(st, o, mx, my, ax, ay) :
        o \in Orders(LegacyActing(st.fc, mx, my))}

legacyModerator == Rat(1, 2)

LegacyCursorMoved(st, ev, dx, dy) ==
    LegacyGestures(Logged([st EXCEPT !.fc.mousePrevPos = <<ev.Xpos, ev.Ypos>>],
                          "onCursor", RZero, TRUE),
                   Motion(dx, MouseRight, MouseLeft),
                   Motion(dy, MouseDown, MouseUp), RAbs(dx), RAbs(dy))

LegacyCursorFrom(st, ev, prev) ==
    LegacyCursorMoved(st, ev,
        RMul(RMul(RSub(ev.Xpos, prev[1]), legacyModerator), st.fc.mouseSensitivity),
        RMul(RMul(RSub(ev.Ypos, prev[2]), legacyModerator), st.fc.mouseSensitivity))

\* onCursor is called when an OnCursor event is received
LegacyOnCursor(st, ev) ==
    IF ~st.fc.mouseIsCaptured THEN {Logged(st, "onCursor", RZero, FALSE)}
    ELSE LegacyCursorFrom(st, ev, IF isMousePrevPositionUnset(st.fc)
                                  THEN <<ev.Xpos, ev.Ypos>>
                                  ELSE st.fc.mousePrevPos)

\* onScroll is called when an OnScroll event is received
LegacyOnScroll(st, ev) ==
    LegacyGestures(Logged(st, "onScroll", RZero, TRUE),
                   Motion(ev.Xoffset, MouseScrollRight, MouseScrollLeft),
                   Motion(ev.Yoffset, MouseScrollUp, MouseScrollDown),
                   RAbs(ev.Xoffset), RAbs(ev.Yoffset))

\* the space key: the capture is toggled, and the previous cursor position
\* reset when the capture was left
SpacePressed(st) ==
    IF st.fc.mouseIsCaptured THEN st
    ELSE [st EXCEPT !.fc = resetMousePrevPosition(st.fc)]

\* onKey is called when an OnKeyDown/OnKeyRepeat event is received
LegacyOnKey(st, ev) ==
    IF ev.Key = "KeySpace"
    THEN {SpacePressed(enableMouseCapture(Logged(st, "onKey", RZero, TRUE),
                                          ~st.fc.mouseIsCaptured))}
    ELSE IF BoundTo(st.fc, ev.Key) = {} THEN {Logged(st, "onKey", RZero, TRUE)}
    ELSE {LegacyApply(Logged(st, "onKey", RZero, TRUE), movement,
                      SpeedOf(st.fc, movement)) :
             movement \in BoundTo(st.fc, ev.Key)}

LegacyCallback(cb, st, ev) ==
    CASE cb = "onKey"    -> LegacyOnKey(st, ev)
      [] cb = "onMouse"  -> LegacyOnMouse(st, ev)
      [] cb = "onCursor" -> LegacyOnCursor(st, ev)
      [] cb = "onScroll" -> LegacyOnScroll(st, ev)

RECURSIVE LegacyDispatch(_, _, _)
LegacyDispatch(S, regs, ev) ==
    IF regs = <<>> THEN S
    ELSE LegacyDispatch(UNION {LegacyCallback(Head(regs).cb, st, ev) : st \in S},
                        Tail(regs), ev)

\* cursor positions whose differences give angles of a tenth of a radian
LegacyCursorsIn == {<<RInt(x), RInt(y)>> : x \in {0, 4}, y \in {0, 4}}

LegacyKeysIn == {"KeyW", "KeyD", "KeyE", "KeyUp", "KeyEqual", "KeySpace", "KeyF1"}

InitLegacy ==
    /\ \E target \in InitTargets, worldUp \in InitWorldUps :
          fc = LegacyNewFc(Vec(0, 0, 0), target, worldUp)
    /\ \E fov \in InitFovs : cam = NewCam(fov)
    /\ subs = LegacySubscribed
    /\ pc = "ready"
    /\ last = [op |-> "NewFlyControl", args |-> <<>>, calls |-> <<>>,
               prev |-> [op |-> "", args |-> <<>>, calls |-> <<>>]]
    /\ steps = 0

LegacyCallForward ==
    Ready /\ \E d \in TranslateDeltas : Commit(Forward(Run, d), "Forward", <<d>>)

LegacyCallRight ==
    Ready /\ \E d \in TranslateDeltas : Commit(LegacyRight(Run, d), "Right", <<d>>)

LegacyCallUp ==
    Ready /\ \E d \in TranslateDeltas : Commit(LegacyUp(Run, d), "Up", <<d>>)

LegacyCallYaw ==
    Ready /\ \E d \in RotateDeltas : Commit(LegacyYaw(Run, d), "Yaw", <<d>>)

LegacyCallPitch ==
    Ready /\ \E d \in RotateDeltas : Commit(LegacyPitch(Run, d), "Pitch", <<d>>)

LegacyCallRoll ==
    Ready /\ \E d \in RotateDeltas : Commit(LegacyRoll(Run, d), "Roll", <<d>>)

LegacyCallZoom ==
    Ready /\ \E d \in ZoomDeltas : Commit(Zoom(Run, d), "Zoom", <<d>>)

LegacyCallScaleZoom ==
    Ready /\ \E k \in ZoomScales : Commit(ScaleZoom(Run, k), "ScaleZoom", <<k>>)

LegacyCallReorient ==
    Ready /\ \E target \in ReorientTargets, worldUp \in InitWorldUps :
        Commit(Reorient(Run, target, worldUp), "Reorient", <<target, worldUp>>)

LegacyCallReposition ==
    Ready /\ \E p \in RepositionPoints : Commit(Reposition(Run, p), "Reposition", <<p>>)

LegacyCallDispose == Ready /\ Commit(LegacyDispose(Run), "Dispose", <<>>)

LegacyPublish(evname, ev, args) ==
    \E st \in LegacyDispatch({Run}, subs[evname], ev) : Commit(st, evname, args)

LegacyKeyEvent ==
    Ready /\ \E k \in LegacyKeysIn, t \in KeyTopics :
        LegacyPublish(t, [Key |-> k], <<k>>)

LegacyMouseDownEvent ==
    Ready /\ \E b \in ButtonsIn : LegacyPublish(OnMouseDown, [Button |-> b], <<b>>)

LegacyMouseUpEvent ==
    Ready /\ \E b \in ButtonsIn : LegacyPublish(OnMouseUp, [Button |-> b], <<b>>)

LegacyCursorEvent ==
    Ready /\ \E c \in LegacyCursorsIn :
        LegacyPublish(OnCursor, [Xpos |-> c[1], Ypos |-> c[2]], c)

LegacyScrollEvent ==
    Ready /\ \E c \in ScrollsIn :
        LegacyPublish(OnScroll, [Xoffset |-> c[1], Yoffset |-> c[2]], c)

NextLegacy ==
    \/ LegacyCallForward
    \/ LegacyCallRight
    \/ LegacyCallUp
    \/ LegacyCallYaw
    \/ LegacyCallPitch
    \/ LegacyCallRoll
    \/ LegacyCallZoom
    \/ LegacyCallScaleZoom
    \/ LegacyCallReorient
    \/ LegacyCallReposition
    \/ LegacyCallDispose
    \/ LegacyKeyEvent
    \/ LegacyMouseDownEvent
    \/ LegacyMouseUpEvent
    \/ LegacyCursorEvent
    \/ LegacyScrollEvent

SpecLegacy == InitLegacy /\ [][NextLegacy]_vars

(***************************************************************************)
(* The controller of src/unnamed/part_000 under direct Yaw, Pitch and Roll *)
(* calls only, from a valid construction with any of its options.          *)
(***************************************************************************)
NextFrame ==
    \/ OptFPSStyle
    \/ OptFlightSimStyle
    \/ OptWithConstraints
    \/ Return
    \/ CallYaw
    \/ CallPitch
    \/ CallRoll

SpecFrame == Init /\ [][NextFrame]_vars

(***************************************************************************)
(* The controller of src/unnamed/part_000 with its unexported subscribe    *)
(* and unsubscribe called directly (from inside the package), next to the  *)
(* options, Dispose and the published events.                              *)
(***************************************************************************)
CallSubscribe ==
    Ready /\ \E key \in BOOLEAN, mouse \in BOOLEAN :
        Commit(subscribe(Run, key, mouse), "subscribe", <<key, mouse>>)

CallUnsubscribe ==
    Ready /\ \E key \in BOOLEAN, mouse \in BOOLEAN :
        Commit(unsubscribe(Run, key, mouse), "unsubscribe", <<key, mouse>>)

NextSubs ==
    \/ OptFPSStyle
    \/ OptFlightSimStyle
    \/ OptWithKeys
    \/ OptWithMouse
    \/ Return
    \/ CallSubscribe
    \/ CallUnsubscribe
    \/ CallDispose
    \/ KeyEvent
    \/ MouseDownEvent
    \/ CursorEvent
    \/ ScrollEvent

SpecSubs == Init /\ [][NextSubs]_vars

(***************************************************************************)
(* The controller of src/unnamed/part_000 constructed looking upwards, at  *)
(* (2, 1, -2) from the origin, under Yaw and Pitch calls and key events.   *)
(***************************************************************************)
SteepTargets == {Vec(2, 1, -2)}

SteepDeltas == {SteepAngle, RNeg(SteepAngle), twoPiOver64}

InitSteep ==
    /\ \E target \in SteepTargets, worldUp \in InitWorldUps :
          fc = NewFc(Vec(0, 0, 0), target, worldUp)
    /\ \E fov \in InitFovs : cam = NewCam(fov)
    /\ subs = [t \in Topics |-> <<>>]
    /\ pc = "options"
    /\ last = [op |-> "NewFlyControl", args |-> <<>>, calls |-> <<>>,
               prev |-> [op |-> "", args |-> <<>>, calls |-> <<>>]]
    /\ steps = 0

CallPitchSteep ==
    Ready /\ \E d \in SteepDeltas : Commit(Pitch(Run, d), "Pitch", <<d>>)

NextSteep ==
    \/ OptFPSStyle
    \/ OptFlightSimStyle
    \/ OptWithConstraints
    \/ Return
    \/ CallYaw
    \/ CallPitchSteep
    \/ CallUseWorldUp
    \/ KeyEvent

SpecSteep == InitSteep /\ [][NextSteep]_vars

(***************************************************************************)
(* The controller of src/unnamed/part_000 with its movement methods called *)
(* with the magnitude 0 (and ScaleZoom also with the factor 1) in the      *)
(* states that rotations, zooms and changes of the up mode lead to.        *)
(***************************************************************************)
NeutralScales == {RZero, RInt(1)}

CallWithZero ==
    /\ Ready
    /\ \/ Commit(Forward(Run, RZero), "Forward", <<RZero>>)
       \/ Commit(Right(Run, RZero), "Right", <<RZero>>)
       \/ Commit(Up(Run, RZero), "Up", <<RZero>>)
       \/ Commit(Yaw(Run, RZero), "Yaw", <<RZero>>)
       \/ Commit(Pitch(Run, RZero), "Pitch", <<RZero>>)
       \/ Commit(Roll(Run, RZero), "Roll", <<RZero>>)
       \/ Commit(Zoom(Run, RZero), "Zoom", <<RZero>>)

CallScaleZoomNeutral ==
    Ready /\ \E k \in NeutralScales : Commit(ScaleZoom(Run, k), "ScaleZoom", <<k>>)

NextZero ==
    \/ OptFPSStyle
    \/ OptFlightSimStyle
    \/ OptWithConstraints
    \/ Return
    \/ CallPitch
    \/ CallRoll
    \/ CallZoom
    \/ CallUseWorldUp
    \/ CallWithZero
    \/ CallScaleZoomNeutral

SpecZero == Init /\ [][NextZero]_vars

(***************************************************************************)
(* The controller of src/unnamed/part_000 re-oriented toward targets on    *)
(* and off the axes with the world up direction +Y or +Z, between moves,   *)
(* rotations and changes of the up mode.                                   *)
(***************************************************************************)
OrientWorldUps == {Vec(0, 1, 0), Vec(0, 0, 1)}

CallReorientTo ==
    Ready /\ \E target \in ReorientTargets, worldUp \in OrientWorldUps :
        Commit(Reorient(Run, target, worldUp), "Reorient", <<target, worldUp>>)

NextOrient ==
    \/ OptFPSStyle
    \/ OptFlightSimStyle
    \/ Return
    \/ CallForward
    \/ CallYaw
    \/ CallPitch
    \/ CallReposition
    \/ CallUseWorldUp
    \/ CallReorientTo

SpecOrient == Init /\ [][NextOrient]_vars

(***************************************************************************)
(* The controller of src/unnamed/part_000 constructed with a preset, alone  *)
(* or followed by a WithMouse table that binds two movements to one motion *)
(* and chord and needs no button, under mouse events, capture and changes  *)
(* of up mode.                                                             *)
(***************************************************************************)
SharedMouse ==
    MapOf({<<YawRight, Gesture(MouseRight, <<>>, FALSE)>>,
           <<MoveRight, Gesture(MouseRight, <<>>, FALSE)>>,
           <<PitchDown, Gesture(MouseDown, <<>>, FALSE)>>,
           <<ZoomIn, Gesture(MouseScrollUp, <<>>, FALSE)>>})

\* NewFlyControl(cam, target, worldUp, style) or NewFlyControl(cam, target,
\* worldUp, style, WithMouse(SharedMouse)) returned
Constructed(st) ==
    /\ fc = st.fc
    /\ cam = st.cam
    /\ subs = st.subs

InitShared ==
    /\ \E target \in InitTargets, worldUp \in InitWorldUps, fov \in InitFovs,
          style \in BOOLEAN, shared \in BOOLEAN :
          LET st == [fc |-> NewFc(Vec(0, 0, 0), target, worldUp),
                     cam |-> NewCam(fov),
                     subs |-> [t \in Topics |-> <<>>],
                     log |-> <<>>]
              styled == IF style THEN FPSStyle(st) ELSE FlightSimStyle(st)
          IN  Constructed(IF shared THEN WithMouse(styled, SharedMouse)
                          ELSE styled)
    /\ pc = "ready"
    /\ last = [op |-> "NewFlyControl", args |-> <<>>, calls |-> <<>>,
               prev |-> [op |-> "", args |-> <<>>, calls |-> <<>>]]
    /\ steps = 0

\* cursor samples with a long vertical sweep added
SweepCursors == CursorsIn \cup {<<RZero, RInt(128)>>}

CursorSweepEvent ==
    Ready /\ \E c \in SweepCursors :
        Publish(OnCursor, [Xpos |-> c[1], Ypos |-> c[2]], c)

NextShared ==
    \/ CallUseWorldUp
    \/ CallSetMouseIsCaptured
    \/ MouseDownEvent
    \/ MouseUpEvent
    \/ CursorSweepEvent
    \/ ScrollEvent

SpecShared == InitShared /\ [][NextShared]_vars


(***************************************************************************)
(* Properties.                                                             *)
(***************************************************************************)

\* C1: constraintOk(value, low, high) accepts exactly when (no bound is
\* defined for low or value >= the low bound) and (no bound is defined for
\* high or value <= the high bound): the bounds are inclusive and the empty
\* table accepts every value.  Checked at every constraint table reached,
\* for the pairs the methods use and values at, next to and away from the
\* bounds.
C1_ConstraintOkExact ==
    LET C      == fc.Constraints
        pairs  == {<<YawLeft, YawRight>>, <<PitchDown, PitchUp>>,
                   <<RollLeft, RollRight>>, <<ZoomIn, ZoomOut>>,
                   <<MoveForward, Backward>>}
        values == {RZero, RInt(1), RInt(-1), Rat(3, 2), Rat(-3, 2)}
                  \cup {C[m] : m \in DOMAIN C}
                  \cup {RAdd(C[m], e) : m \in DOMAIN C,
                                        e \in {Rat(1, 1000), Rat(-1, 1000)}}
    IN  \A p \in pairs, v \in values :
            constraintOk(fc, v, p[1], p[2])
                <=> /\ (p[1] \notin DOMAIN C \/ RLe(C[p[1]], v))
                    /\ (p[2] \notin DOMAIN C \/ RLe(v, C[p[2]]))

\* the table {YawLeft: -1.0, YawRight: 1.0} is in use, -1.0 and 1.0 are
\* accepted, -1.5 and 1.5 refused, and a Yaw call has just been refused
C1_Witness ==
    /\ pc = "ready"
    /\ YawLeft \in DOMAIN fc.Constraints /\ fc.Constraints[YawLeft] = RInt(-1)
    /\ YawRight \in DOMAIN fc.Constraints /\ fc.Constraints[YawRight] = RInt(1)
    /\ constraintOk(fc, RInt(-1), YawLeft, YawRight)
    /\ constraintOk(fc, RInt(1), YawLeft, YawRight)
    /\ ~constraintOk(fc, Rat(-3, 2), YawLeft, YawRight)
    /\ ~constraintOk(fc, Rat(3, 2), YawLeft, YawRight)
    /\ last.op = "Yaw" /\ last.calls = <<[op |-> "Yaw", delta |-> Deg(90), ok |-> FALSE]>>

\* C2: a Yaw, Pitch, Roll, Zoom or ScaleZoom call whose proposed value the
\* constraint check refuses is a silent no-op: position, forward, up, the
\* accumulated rotation and the field of view are as before the call and
\* no look-at (nor anything else) is pushed to the camera.
C2_RejectedIsNoOp ==
    [][(/\ pc = "ready"
        /\ last'.op \in {"Yaw", "Pitch", "Roll", "Zoom", "ScaleZoom"}
        /\ LET d   == last'.args[1]
               fov == RMul(cam.fov, degrees)
           IN  CASE last'.op = "Yaw" ->
                        ~constraintOk(fc, RAdd(fc.rotation[1], d), YawLeft, YawRight)
                 [] last'.op = "Pitch" ->
                        ~constraintOk(fc, RAdd(fc.rotation[2], d), PitchDown, PitchUp)
                 [] last'.op = "Roll" ->
                        ~constraintOk(fc, RAdd(fc.rotation[3], d), RollLeft, RollRight)
                 [] last'.op = "Zoom" ->
                        ~constraintOk(fc, RAdd(fov, d), ZoomIn, ZoomOut)
                 [] last'.op = "ScaleZoom" ->
                        ~constraintOk(fc, RMul(fov, d), ZoomIn, ZoomOut))
       => /\ fc'.position = fc.position
          /\ fc'.forward = fc.forward
          /\ fc'.up = fc.up
          /\ fc'.rotation = fc.rotation
          /\ cam'.fov = cam.fov
          /\ cam'.lookAts = cam.lookAts
          /\ cam' = cam]_vars

\* one of the five calls has just been refused
C2_Witness ==
    /\ last.op \in {"Yaw", "Pitch", "Roll", "Zoom", "ScaleZoom"}
    /\ last.calls = <<[op |-> last.op, delta |-> last.args[1], ok |-> FALSE]>>

\* C3: with a constraint table whose defined low rotation bounds are <= 0
\* and whose defined high rotation bounds are >= 0, each accumulated
\* rotation component (yaw, pitch, roll) is within its defined bounds in
\* every reachable state; under the FPS style preset the accumulated pitch
\* stays in [-85 degrees, +85 degrees].
C3_RotationWithinBounds ==
    LET C == fc.Constraints
        straddles ==
            /\ \A m \in {YawLeft, PitchDown, RollLeft} \cap DOMAIN C : RLe(C[m], RZero)
            /\ \A m \in {YawRight, PitchUp, RollRight} \cap DOMAIN C : RLe(RZero, C[m])
        within(i, low, high) ==
            /\ low \in DOMAIN C => RLe(C[low], fc.rotation[i])
            /\ high \in DOMAIN C => RLe(fc.rotation[i], C[high])
    IN  /\ straddles => /\ within(1, YawLeft, YawRight)
                        /\ within(2, PitchDown, PitchUp)
                        /\ within(3, RollLeft, RollRight)
        /\ C = FPSConstraints => /\ RLe(RNeg(Deg(85)), fc.rotation[2])
                                 /\ RLe(fc.rotation[2], Deg(85))

\* under the FPS style preset the pitch is 45 degrees and a further Pitch
\* of 45 degrees or more has just been refused
C3_Witness ==
    /\ fc.Constraints = FPSConstraints
    /\ fc.rotation[2] = Deg(45)
    /\ last.op = "Pitch"
    /\ last.calls = <<[op |-> "Pitch", delta |-> last.args[1], ok |-> FALSE]>>
    /\ last.prev.op = "Pitch"

\* C4: in every state reached from a valid construction by Yaw, Pitch and
\* Roll calls, forward and up are of unit length and perpendicular (within
\* 0.02), in camera-up mode and in world-up mode alike.
C4_FrameOrthonormal ==
    /\ ~IsNaNVec(fc.forward)
    /\ ~IsNaNVec(fc.up)
    /\ Abs(Length(fc.forward) - VScale) <= 20
    /\ Abs(Length(fc.up) - VScale) <= 20
    /\ Abs(Dot(fc.forward, fc.up)) <= 20

\* C5: from forward = (0,0,-1), up = (0,1,0), world-up = (0,1,0), no yaw
\* constraint and accumulated yaw 0, Yaw(+pi/2) turns forward toward +X:
\* forward becomes (1,0,0) and the accumulated yaw +pi/2.
C5_YawTurnsTowardPlusX ==
    [][(/\ pc = "ready"
        /\ last'.op = "Yaw" /\ last'.args = <<Deg(90)>>
        /\ fc.forward = Vec(0, 0, -1)
        /\ fc.up = Vec(0, 1, 0)
        /\ fc.upWorld = Vec(0, 1, 0)
        /\ fc.rotation[1] = RZero
        /\ DOMAIN fc.Constraints \cap {YawLeft, YawRight} = {})
       => /\ fc'.forward = Vec(1, 0, 0)
          /\ fc'.rotation[1] = Deg(90)]_vars

\* Yaw(+pi/2) has just turned the camera from -Z to +X
C5_Witness ==
    /\ last.op = "Yaw"
    /\ last.calls = <<[op |-> "Yaw", delta |-> Deg(90), ok |-> TRUE]>>
    /\ fc.forward = Vec(1, 0, 0)
    /\ fc.up = Vec(0, 1, 0)
    /\ fc.rotation = <<Deg(90), RZero, RZero>>
    /\ cam.target = VAdd(fc.position, Vec(1, 0, 0))

\* C5 as claimed: the same call turns forward toward -X, to (-1,0,0)
C5_YawTurnsTowardMinusX ==
    [][(/\ pc = "ready"
        /\ last'.op = "Yaw" /\ last'.args = <<Deg(90)>>
        /\ fc.forward = Vec(0, 0, -1)
        /\ fc.up = Vec(0, 1, 0)
        /\ fc.upWorld = Vec(0, 1, 0)
        /\ fc.rotation[1] = RZero
        /\ DOMAIN fc.Constraints \cap {YawLeft, YawRight} = {})
       => /\ fc'.forward = Vec(-1, 0, 0)
          /\ fc'.rotation[1] = Deg(90)]_vars

\* C6: with the ZoomIn bound 1 degree and the ZoomOut bound 100 degrees the
\* field of view, started inside [1, 100] degrees, stays inside it under
\* every call and event, and a Zoom or ScaleZoom that would take it outside
\* leaves it at its previous value.
C6_ZoomWithinBounds ==
    /\ [](({ZoomIn, ZoomOut} \subseteq DOMAIN fc.Constraints
            /\ fc.Constraints[ZoomIn] = Deg(1)
            /\ fc.Constraints[ZoomOut] = Deg(100))
          => (RLe(RInt(1), cam.fov) /\ RLe(cam.fov, RInt(100))))
    /\ [][(/\ pc = "ready"
           /\ {ZoomIn, ZoomOut} \subseteq DOMAIN fc.Constraints
           /\ fc.Constraints[ZoomIn] = Deg(1)
           /\ fc.Constraints[ZoomOut] = Deg(100)
           /\ LET fov == RMul(cam.fov, degrees)
                  new == IF last'.op = "Zoom" THEN RAdd(fov, last'.args[1])
                         ELSE RMul(fov, last'.args[1])
              IN  /\ last'.op \in {"Zoom", "ScaleZoom"}
                  /\ (RLt(new, Deg(1)) \/ RLt(Deg(100), new)))
          => cam'.fov = cam.fov]_vars

\* the field of view is 10 degrees after Zoom(-50 degrees) from 60, and a
\* second Zoom(-50 degrees) has just been refused, leaving it at 10
C6_Witness ==
    /\ {ZoomIn, ZoomOut} \subseteq DOMAIN fc.Constraints
    /\ fc.Constraints[ZoomIn] = Deg(1)
    /\ fc.Constraints[ZoomOut] = Deg(100)
    /\ cam.fov = RInt(10)
    /\ last.op = "Zoom"
    /\ last.calls = <<[op |-> "Zoom", delta |-> RNeg(Deg(50)), ok |-> FALSE]>>
    /\ last.prev.op = "Zoom"

\* C7: at every held-buttons state and for every button b, a button event
\* for b handled twice (down, then up) restores the bitset, and each
\* handled button event changes bit b and no other bit.
C7_ButtonPairRestores ==
    /\ [](\A b \in ButtonsIn :
            \A s1 \in onMouse(Run, [Button |-> b]) :
                \A s2 \in onMouse(s1, [Button |-> b]) :
                    s2.fc.mouseBtnState = fc.mouseBtnState)
    /\ [][(last'.op \in {OnMouseDown, OnMouseUp} /\ Len(last'.calls) = 1)
          => \A c \in ButtonsIn :
                ((fc'.mouseBtnState \div Shl(c)) % 2
                    = (fc.mouseBtnState \div Shl(c)) % 2)
                <=> c # last'.args[1]]_vars

\* a button-down and then a button-up of the same button have been handled
\* and the held set is empty again
C7_Witness ==
    /\ last.op = OnMouseUp /\ Len(last.calls) = 1
    /\ last.prev.op = OnMouseDown /\ Len(last.prev.calls) = 1
    /\ last.args = last.prev.args
    /\ fc.mouseBtnState = 0

\* C8: from the empty held set, two button-down events for button b with no
\* button-up in between leave b's bit clear: the second down toggles it off
\* and the held set is empty although b is down.
C8_SecondDownClearsBit ==
    [][(/\ last.op = OnMouseDown /\ Len(last.calls) = 1
        /\ fc.mouseBtnState = Shl(last.args[1])
        /\ last'.op = OnMouseDown /\ Len(last'.calls) = 1
        /\ last'.args = last.args)
       => fc'.mouseBtnState = 0]_vars

\* two button-down events for the same button have been handled in a row
\* and the held set is empty
C8_Witness ==
    /\ last.op = OnMouseDown /\ Len(last.calls) = 1
    /\ last.prev.op = OnMouseDown /\ Len(last.prev.calls) = 1
    /\ last.args = last.prev.args
    /\ fc.mouseBtnState = 0

\* C8 as claimed: from the empty held set, two button-down events for b
\* with no button-up in between leave b's bit set
C8_SecondDownLeavesBitSet ==
    [][(/\ last.op = OnMouseDown /\ Len(last.calls) = 1
        /\ fc.mouseBtnState = Shl(last.args[1])
        /\ last'.op = OnMouseDown /\ Len(last'.calls) = 1
        /\ last'.args = last.args)
       => (fc'.mouseBtnState \div Shl(last.args[1])) % 2 = 1]_vars

\* C9: the previous cursor position is unset after construction (options
\* included) and after every SetMouseIsCaptured call, entering and leaving
\* capture alike; a cursor event handled while it is unset dispatches only
\* zero magnitudes and, the frame being finite, leaves position, forward,
\* up, the accumulated rotation and the field of view unchanged, whatever
\* its coordinates and the buttons held.
C9_CursorSentinel ==
    /\ []((pc = "options" \/ last.op \in {"NewFlyControl", "SetMouseIsCaptured"})
          => isMousePrevPositionUnset(fc))
    /\ [][(/\ last'.op = OnCursor /\ Len(last'.calls) > 0
           /\ isMousePrevPositionUnset(fc)
           /\ ~IsNaNVec(fc.forward) /\ ~IsNaNVec(fc.up))
          => /\ \A i \in 1 .. Len(last'.calls) : last'.calls[i].delta = RZero
             /\ fc'.position = fc.position
             /\ fc'.forward = fc.forward
             /\ fc'.up = fc.up
             /\ fc'.rotation = fc.rotation
             /\ cam'.fov = cam.fov
             /\ fc'.mousePrevPos = last'.args]_vars

\* the first cursor event after entering capture has been handled, away
\* from the origin, and recorded as the previous position
C9_Witness ==
    /\ last.op = OnCursor /\ Len(last.calls) > 0
    /\ last.args = <<RInt(128), RInt(8)>>
    /\ last.prev.op = "SetMouseIsCaptured" /\ last.prev.args = <<TRUE>>
    /\ fc.mouseIsCaptured
    /\ fc.mousePrevPos = last.args
    /\ fc.rotation = <<RZero, RZero, RZero>>

\* C10: after Dispose the controller has no registration left on any of its
\* six topics, and an event published next invokes none of its handlers.
C10_DisposeUnsubscribes ==
    /\ last.op = "Dispose" => \A t \in Topics : subs[t] = <<>>
    /\ (last.prev.op = "Dispose" /\ last.op \in Topics) => last.calls = <<>>

\* the entries of a log made by the event listeners themselves
HandlerRuns(calls) ==
    SelectSeq(calls, LAMBDA c : c.op \in {"onKey", "onMouse", "onCursor", "onScroll"})

\* C11: after any sequence of options, subscribe, unsubscribe and Dispose
\* calls each topic holds at most one registration of the controller, so a
\* published event runs its handler at most once; a second unsubscribe or
\* Dispose with the same arguments gives the state the first one gave.
C11_SubscriptionIdempotent ==
    /\ \A t \in Topics :
          Len(SelectSeq(subs[t], LAMBDA r : r.id = FcId)) <= 1
    /\ last.op \in Topics => Len(HandlerRuns(last.calls)) <= 1
    /\ \A key \in BOOLEAN, mouse \in BOOLEAN :
          /\ unsubscribe(unsubscribe(Run, key, mouse), key, mouse)
                = unsubscribe(Run, key, mouse)
          /\ subscribe(subscribe(Run, key, mouse), key, mouse)
                = subscribe(Run, key, mouse)
    /\ Dispose(Dispose(Run)) = Dispose(Run)
    /\ (last.op = "Dispose" /\ last.prev.op = "Dispose")
          => \A t \in Topics : subs[t] = <<>>

\* subscribe(true, true) was called on a controller the FPS style preset had
\* already subscribed, and the key event published next ran onKey once
C11_Witness ==
    /\ fc.Keys = FPSKeys
    /\ last.prev.op = "subscribe" /\ last.prev.args = <<TRUE, TRUE>>
    /\ last.op = OnKeyDown
    /\ Len(HandlerRuns(last.calls)) = 1
    /\ \A t \in Topics : Len(subs[t]) = 1

\* the methods an event made the listeners call
Dispatched(calls) == {calls[i].op : i \in 1 .. Len(calls)}

\* C12: under the FPS style preset (its key and mouse tables) roll is
\* disabled: no key, cursor or scroll event dispatches Roll, and every input
\* event leaves the accumulated roll as it was.  Yaw is not disabled: the
\* preset binds it to the keys A and D and to dragging with the left button.
C12_FPSRollDisabled ==
    [][(/\ pc = "ready"
        /\ fc.Keys = FPSKeys /\ fc.Mouse = PresetMouse
        /\ last'.op \in Topics)
       => /\ "Roll" \notin Dispatched(last'.calls)
          /\ fc'.rotation[3] = fc.rotation[3]]_vars

\* under the FPS style preset the key D has just dispatched Yaw with the
\* preset's step, and the accumulated yaw is that step
C12_Witness ==
    /\ fc.Keys = FPSKeys /\ fc.Mouse = PresetMouse /\ fc.Speeds = FPSSpeeds
    /\ last.op = OnKeyDown /\ last.args = <<"KeyD">>
    /\ last.calls = <<[op |-> "onKey", delta |-> RZero, ok |-> TRUE],
                      [op |-> "Yaw", delta |-> twoPiOver64, ok |-> TRUE]>>
    /\ fc.rotation = <<twoPiOver64, RZero, RZero>>

\* C12 as claimed: under the FPS style preset no input event dispatches Yaw
\* or Roll and the accumulated yaw and roll stay as they were
C12_FPSYawRollDisabled ==
    [][(/\ pc = "ready"
        /\ fc.Keys = FPSKeys /\ fc.Mouse = PresetMouse
        /\ last'.op \in Topics)
       => /\ Dispatched(last'.calls) \cap {"Yaw", "Roll"} = {}
          /\ fc'.rotation[1] = fc.rotation[1]
          /\ fc'.rotation[3] = fc.rotation[3]]_vars

\* C13: in world-up mode with the PitchDown and PitchUp constraints strictly
\* inside (-pi/2, +pi/2), forward is never parallel to worldUp (the cross
\* product forward x worldUp is never zero) and no frame vector is
\* non-finite.
C13_ForwardNeverParallel ==
    LET C == fc.Constraints
    IN  (/\ fc.useUpWorld
         /\ {PitchDown, PitchUp} \subseteq DOMAIN C
         /\ RLt(RNeg(Deg(90)), C[PitchDown]) /\ RLt(C[PitchDown], Deg(90))
         /\ RLt(RNeg(Deg(90)), C[PitchUp]) /\ RLt(C[PitchUp], Deg(90)))
        => /\ ~IsNaNVec(fc.forward) /\ ~IsNaNVec(fc.up)
           /\ Cross(fc.forward, fc.upWorld) # <<0, 0, 0>>

\* the method that carries out a movement
MethodOf(m) ==
    CASE m \in {MoveForward, Backward} -> "Forward"
      [] m \in {MoveRight, Left}       -> "Right"
      [] m \in {MoveUp, Down}          -> "Up"
      [] m \in {YawRight, YawLeft}     -> "Yaw"
      [] m \in {PitchUp, PitchDown}    -> "Pitch"
      [] m \in {RollRight, RollLeft}   -> "Roll"
      [] m \in {ZoomOut, ZoomIn}       -> "Zoom"

\* C14: key-down and key-repeat run the same listener; a key event whose
\* key is bound to exactly one movement m dispatches exactly one movement,
\* the method of m, with magnitude Speeds[m] (0 when Speeds has no entry);
\* a key bound to no movement dispatches nothing.
C14_KeyDispatchesItsMovement ==
    /\ [](subs[OnKeyDown] = subs[OnKeyRepeat]
          /\ \A i \in 1 .. Len(subs[OnKeyDown]) : subs[OnKeyDown][i].cb = "onKey")
    /\ [][(last'.op \in KeyTopics /\ Len(last'.calls) > 0)
          => LET bound == {m \in DOMAIN fc.Keys : fc.Keys[m] = last'.args[1]}
             IN  /\ bound = {} => Len(last'.calls) = 1
                 /\ \A m \in bound :
                       bound = {m}
                       => /\ Len(last'.calls) = 2
                          /\ last'.calls[2].op = MethodOf(m)
                          /\ last'.calls[2].delta =
                                IF m \in DOMAIN fc.Speeds THEN fc.Speeds[m]
                                ELSE RZero]_vars

\* under the FPS style preset a key-repeat of W has just dispatched Pitch
\* with the step of PitchUp and nothing else
C14_Witness ==
    /\ fc.Keys = FPSKeys /\ fc.Speeds = FPSSpeeds
    /\ last.op = OnKeyRepeat /\ last.args = <<"KeyW">>
    /\ last.calls = <<[op |-> "onKey", delta |-> RZero, ok |-> TRUE],
                      [op |-> "Pitch", delta |-> twoPiOver64, ok |-> TRUE]>>
    /\ fc.rotation[2] = twoPiOver64

\* C15: unrecognised input is ignored.  A key event for a key that no entry
\* of the Keys table holds leaves the whole controller and its camera
\* unchanged (frame, accumulated rotation, field of view, held buttons,
\* previous cursor position, capture flag); a cursor or scroll event that
\* matches no gesture (its listener dispatches nothing) leaves position,
\* forward, up, the accumulated rotation, the field of view, the held
\* buttons and the capture flag unchanged.
C15_UnrecognizedIgnored ==
    [][/\ (/\ last'.op \in KeyTopics /\ Len(last'.calls) > 0
            /\ \A m \in DOMAIN fc.Keys : fc.Keys[m] # last'.args[1])
           => (fc' = fc /\ cam' = cam)
       /\ (last'.op \in {OnCursor, OnScroll} /\ Len(last'.calls) = 1)
           => /\ fc'.position = fc.position
              /\ fc'.forward = fc.forward
              /\ fc'.up = fc.up
              /\ fc'.rotation = fc.rotation
              /\ cam'.fov = cam.fov
              /\ fc'.mouseBtnState = fc.mouseBtnState
              /\ fc'.mouseIsCaptured = fc.mouseIsCaptured]_vars

\* the frame is finite
FiniteFrame ==
    ~IsNaNVec(fc.position) /\ ~IsNaNVec(fc.forward) /\ ~IsNaNVec(fc.up)

\* position, forward, up, the accumulated rotation and the field of view are
\* as before the step
FrameKept ==
    /\ fc'.position = fc.position
    /\ fc'.forward = fc.forward
    /\ fc'.up = fc.up
    /\ fc'.rotation = fc.rotation
    /\ cam'.fov = cam.fov

C17_ReorientIdempotent ==
    /\ [](\A target \in ReorientTargets, worldUp \in OrientWorldUps :
            LET once  == ReorientFc(fc, target, worldUp)
                twice == ReorientFc(once, target, worldUp)
            IN  /\ once.rotation = <<RZero, RZero, RZero>>
                /\ once.upWorld = worldUp
                /\ once.position = fc.position
                /\ twice = once)
    /\ [][(pc = "ready" /\ last'.op = "Reorient")
          => /\ fc'.rotation = <<RZero, RZero, RZero>>
             /\ fc'.upWorld = last'.args[2]
             /\ fc'.position = fc.position
             /\ cam' = cam
             /\ (last.op = "Reorient" /\ last.args = last'.args) => fc' = fc]_vars

\* after a rotation Reorient toward (0, 4, -3) with world up +Z was called
\* twice in a row: the rotation is zero, world up is +Z and forward is the
\* unit vector toward the target
C17_Witness ==
    /\ last.op = "Reorient" /\ last.args = <<Vec(0, 4, -3), Vec(0, 0, 1)>>
    /\ last.prev.op = "Reorient" /\ last.prev.args = last.args
    /\ fc.position = Vec(0, 0, 0)
    /\ fc.rotation = <<RZero, RZero, RZero>>
    /\ fc.upWorld = Vec(0, 0, 1)
    /\ fc.forward = <<0, 800, -600>>
    /\ fc.up = <<0, 600, 800>>
    /\ cam.lookAts > 0

\* button lists of up to three buttons, in every order, repeats included
ButtonLists ==
    {<<>>} \cup {<<a>> : a \in ButtonsIn}
           \cup {<<a, b>> : a \in ButtonsIn, b \in ButtonsIn}
           \cup {<<a, b, c>> : a \in ButtonsIn, b \in ButtonsIn, c \in ButtonsIn}

\* the buttons whose bit is set in the held-buttons bitset
HeldButtons(f) == {b \in ButtonsIn : (f.mouseBtnState \div Shl(b)) % 2 = 1}

\* C18: for every held-buttons state and every button list B, in any order,
\* mouseButtonsPressed(B...) is true exactly when the set of held buttons
\* is the set of the buttons in B.
C18_ChordIsExactSet ==
    \A B \in ButtonLists :
        mouseButtonsPressed(fc, B)
            <=> HeldButtons(fc) = {B[i] : i \in 1 .. Len(B)}

\* the motions onCursor classifies for a cursor sample c, 'none' left out
CursorMotions(f, c) ==
    LET prev == IF isMousePrevPositionUnset(f) THEN c ELSE f.mousePrevPos
    IN  {Motion(RMul(RMul(RSub(c[1], prev[1]), moderator), f.mouseSensitivity),
                MouseRight, MouseLeft),
         Motion(RMul(RMul(RSub(c[2], prev[2]), moderator), f.mouseSensitivity),
                MouseDown, MouseUp)} \ {MouseNone}

\* the motions onScroll classifies for the offsets c, 'none' left out
ScrollMotions(c) ==
    {Motion(c[1], MouseScrollRight, MouseScrollLeft),
     Motion(c[2], MouseScrollUp, MouseScrollDown)} \ {MouseNone}

\* C19: a zero delta never matches.  Every movement a cursor-move or scroll
\* event dispatches belongs to a gesture whose Motion is the classification
\* of an axis with a nonzero delta; an axis whose delta is zero dispatches
\* nothing, whatever the gesture table (one holding a gesture whose Motion
\* is MouseNone included).
C19_ZeroDeltaNeverMatches ==
    [][(last'.op \in {OnCursor, OnScroll} /\ Len(last'.calls) > 0)
       => \A i \in 2 .. Len(last'.calls) :
             \E m \in DOMAIN fc.Mouse :
                /\ MethodOf(m) = last'.calls[i].op
                /\ fc.Mouse[m].Motion \in
                      (IF last'.op = OnCursor
                       THEN CursorMotions(fc, last'.args)
                       ELSE ScrollMotions(last'.args))]_vars

\* C20: the capture gate.  Every movement a cursor-move or scroll event
\* dispatches belongs to a gesture whose Captured requirement equals the
\* capture flag at the time of the event: a gesture with Captured = TRUE
\* never fires while the flag is FALSE, one with Captured = FALSE never
\* fires while it is TRUE.
C20_CaptureGate ==
    [][(last'.op \in {OnCursor, OnScroll} /\ Len(last'.calls) > 0)
       => \A i \in 2 .. Len(last'.calls) :
             \E m \in DOMAIN fc.Mouse :
                /\ MethodOf(m) = last'.calls[i].op
                /\ fc.Mouse[m].Captured = fc.mouseIsCaptured]_vars

\* with the cursor captured, a scroll up has just fired the gesture of
\* ZoomIn, which requires capture, and nothing else
C20_Witness ==
    /\ fc.mouseIsCaptured
    /\ ZoomIn \in DOMAIN fc.Mouse
    /\ fc.Mouse[ZoomIn].Captured
    /\ PitchUp \in DOMAIN fc.Mouse
    /\ ~fc.Mouse[PitchUp].Captured
    /\ last.op = OnScroll
    /\ Len(last.calls) = 2
    /\ last.calls[2].op = "Zoom"


\* C21: a single cursor-move event dispatches at most two movements, at
\* most one from the horizontal classification and at most one from the
\* vertical one, whatever the gesture table (several movements bound to one
\* motion and chord included): the listener calls at most two methods, and
\* when it calls two, one belongs to a gesture of the horizontal motion and
\* the other to a gesture of the vertical motion.
C21_AtMostTwoPerCursorEvent ==
    [][(last'.op = OnCursor /\ Len(last'.calls) > 0)
       => LET prev == IF isMousePrevPositionUnset(fc) THEN last'.args
                      ELSE fc.mousePrevPos
              mx == Motion(RMul(RMul(RSub(last'.args[1], prev[1]), moderator),
                                fc.mouseSensitivity), MouseRight, MouseLeft)
              my == Motion(RMul(RMul(RSub(last'.args[2], prev[2]), moderator),
                                fc.mouseSensitivity), MouseDown, MouseUp)
              From(i, motion) ==
                  \E m \in DOMAIN fc.Mouse :
                      /\ fc.Mouse[m].Motion = motion
                      /\ MethodOf(m) = last'.calls[i].op
          IN  /\ Len(last'.calls) <= 3
              /\ Len(last'.calls) = 3
                 => \/ From(2, mx) /\ From(3, my)
                    \/ From(2, my) /\ From(3, mx)]_vars

\* C22: cursor delta tracking.  After every cursor-move event the listener
\* handles, the previous cursor position is that event's coordinates,
\* whether or not a gesture matched or a constraint rejected the movement;
\* every magnitude dispatched is |current - previous| * moderator *
\* sensitivity * Speeds[m] on one of the two axes, for a movement m of the
\* table, with previous the sample before (the current one when unset).
C22_CursorDeltaTracking ==
    [][(last'.op = OnCursor /\ Len(last'.calls) > 0)
       => LET prev == IF isMousePrevPositionUnset(fc) THEN last'.args
                      ELSE fc.mousePrevPos
          IN  /\ fc'.mousePrevPos = last'.args
              /\ \A i \in 2 .. Len(last'.calls) :
                    \E m \in DOMAIN fc.Mouse, k \in 1 .. 2 :
                       /\ MethodOf(m) = last'.calls[i].op
                       /\ last'.calls[i].delta =
                             RMul(RMul(RMul(RAbs(RSub(last'.args[k], prev[k])),
                                            moderator),
                                       fc.mouseSensitivity),
                                  SpeedOf(fc, m))]_vars

\* a second cursor sample, 128 below the first, has dispatched a pitch of a
\* quarter turn that the pitch constraint rejected, and is recorded as the
\* previous position
C22_Witness ==
    /\ last.op = OnCursor /\ last.prev.op = OnCursor
    /\ last.prev.args = <<RZero, RZero>>
    /\ last.args = <<RZero, RInt(128)>>
    /\ Len(last.calls) = 2
    /\ last.calls[2] = [op |-> "Pitch", delta |-> RMul(RInt(-16), twoPiOver64),
                        ok |-> FALSE]
    /\ fc.mousePrevPos = last.args

\* magnitudes handed to apply, and identifiers next to the 14 movements
RoutedDeltas == {Deg(45), RNeg(twoPiOver64)}

OtherMovements == {-1, 14}

\* the log of one call of the method of m with magnitude d
OneCall(log, m, d) ==
    /\ Len(log) = 1
    /\ log[1].op = MethodOf(m)
    /\ log[1].delta = d

\* C23: apply(m, d) calls exactly one method, the one of the pair m belongs
\* to, and passes d unchanged, so that the two members of a pair behave
\* alike for the same d; a movement identifier outside the 14 changes no
\* state.  Checked at every state reached, for each of the 14 movements.
C23_ApplyRoutesByPair ==
    \A d \in RoutedDeltas :
        /\ \A m \in FlyMovement : OneCall(apply(Run, m, d).log, m, d)
        /\ \A m \in {MoveForward, Backward} : apply(Run, m, d) = Forward(Run, d)
        /\ \A m \in {MoveRight, Left} : apply(Run, m, d) = Right(Run, d)
        /\ \A m \in {MoveUp, Down} : apply(Run, m, d) = Up(Run, d)
        /\ \A m \in {YawRight, YawLeft} : apply(Run, m, d) = Yaw(Run, d)
        /\ \A m \in {PitchUp, PitchDown} : apply(Run, m, d) = Pitch(Run, d)
        /\ \A m \in {RollRight, RollLeft} : apply(Run, m, d) = Roll(Run, d)
        /\ \A m \in {ZoomOut, ZoomIn} : apply(Run, m, d) = Zoom(Run, d)
        /\ \A m \in OtherMovements : apply(Run, m, d) = Run

\* under a style preset the key of ZoomIn has just dispatched Zoom with the
\* step of ZoomIn, a negative angle, and the field of view has narrowed
C23_Witness ==
    /\ last.op = OnKeyDown /\ last.args = <<"KeyEqual">>
    /\ BoundTo(fc, "KeyEqual") = {ZoomIn}
    /\ last.calls = <<[op |-> "onKey", delta |-> RZero, ok |-> TRUE],
                      [op |-> "Zoom", delta |-> RNeg(twoPiOver64), ok |-> TRUE]>>
    /\ RLt(cam.fov, RInt(60))

\* C24: frame effects of the movement methods.  Forward, Right and Up are
\* never rejected and change only position; an accepted Yaw(d) changes only
\* the accumulated yaw, by exactly +d, and forward; an accepted Pitch(d)
\* only the accumulated pitch, by +d, forward and up; an accepted Roll(d)
\* only the accumulated roll, by +d, and up, forward staying as it was; Zoom
\* and ScaleZoom leave the whole controller as it was and change only the
\* field of view of the camera.
C24_FrameEffects ==
    [][/\ (last'.op \in {"Forward", "Right", "Up"} /\ Len(last'.calls) = 1)
          => /\ last'.calls[1].ok
             /\ fc' = [fc EXCEPT !.position = fc'.position]
             /\ cam'.fov = cam.fov
       /\ (last'.op = "Yaw" /\ Len(last'.calls) = 1 /\ last'.calls[1].ok)
          => /\ fc' = [fc EXCEPT !.rotation[1] = RAdd(@, last'.args[1]),
                                 !.forward = fc'.forward]
             /\ cam'.fov = cam.fov
       /\ (last'.op = "Pitch" /\ Len(last'.calls) = 1 /\ last'.calls[1].ok)
          => /\ fc' = [fc EXCEPT !.rotation[2] = RAdd(@, last'.args[1]),
                                 !.forward = fc'.forward,
                                 !.up = fc'.up]
             /\ cam'.fov = cam.fov
       /\ (last'.op = "Roll" /\ Len(last'.calls) = 1 /\ last'.calls[1].ok)
          => /\ fc' = [fc EXCEPT !.rotation[3] = RAdd(@, last'.args[1]),
                                 !.up = fc'.up]
             /\ cam'.fov = cam.fov
       /\ (last'.op \in {"Zoom", "ScaleZoom"} /\ Len(last'.calls) = 1)
          => /\ fc' = fc
             /\ cam' = [cam EXCEPT !.fov = cam'.fov]]_vars

\* a quarter turn of Roll has been accepted after an accepted Pitch: up has
\* turned onto the right axis and forward is where the Pitch left it
C24_Witness ==
    /\ last.op = "Roll" /\ last.args = <<Deg(90)>>
    /\ last.calls = <<[op |-> "Roll", delta |-> Deg(90), ok |-> TRUE]>>
    /\ last.prev.op = "Pitch" /\ last.prev.args = <<Deg(45)>>
    /\ last.prev.calls = <<[op |-> "Pitch", delta |-> Deg(45), ok |-> TRUE]>>
    /\ fc.rotation = <<RZero, Deg(45), Deg(90)>>
    /\ fc.forward[2] > 0
    /\ fc.up[2] = 0

\* a and b are the same vector up to the rounding of the last digit kept
SameVector(a, b) ==
    \/ a = b
    \/ /\ ~IsNaNVec(a) /\ ~IsNaNVec(b)
       /\ \A k \in 1 .. 3 : Abs(a[k] - b[k]) <= 2

\* C25: the mode switch.  UseWorldUp(v) with v different from the current
\* mode sets the mode to v, re-orients toward position + forward, which
\* keeps forward and position, and resets the accumulated rotation to zero;
\* UseWorldUp(v) with v the current mode changes no state at all.
C25_ModeSwitch ==
    [][(pc = "ready" /\ last'.op = "UseWorldUp")
       => IF last'.args[1] # fc.useUpWorld
          THEN /\ fc'.useUpWorld = last'.args[1]
               /\ fc'.position = fc.position
               /\ fc'.rotation = <<RZero, RZero, RZero>>
               /\ fc'.upWorld = fc.upWorld
               /\ SameVector(fc'.forward, fc.forward)
          ELSE fc' = fc /\ cam' = cam]_vars

\* the controller has a registration on topic t
Registered(t) == \E i \in 1 .. Len(subs[t]) : subs[t][i].id = FcId

\* C26: the subscription flags track the event bus.  In every state reached
\* isKeySubscribed is true exactly when the controller is registered on
\* both key topics, and isMouseSubscribed exactly when it is registered on
\* all four mouse topics (when a flag is false the controller is registered
\* on none of the channel's topics); subscribe called with false for a
\* channel leaves that channel's registrations as they were.
C26_FlagsTrackBus ==
    /\ [](/\ fc.isKeySubscribed <=> \A t \in KeyTopics : Registered(t)
          /\ fc.isKeySubscribed \/ \A t \in KeyTopics : ~Registered(t)
          /\ fc.isMouseSubscribed <=> \A t \in MouseTopics : Registered(t)
          /\ fc.isMouseSubscribed \/ \A t \in MouseTopics : ~Registered(t))
    /\ [][(pc = "ready" /\ last'.op = "subscribe")
          => /\ ~last'.args[1]
                => /\ \A t \in KeyTopics : subs'[t] = subs[t]
                   /\ fc'.isKeySubscribed = fc.isKeySubscribed
             /\ ~last'.args[2]
                => /\ \A t \in MouseTopics : subs'[t] = subs[t]
                   /\ fc'.isMouseSubscribed = fc.isMouseSubscribed]_vars

\* after WithKeys subscribed the key channel, subscribe(false, true) has
\* added the mouse channel and the key registrations are still there
C26_Witness ==
    /\ last.op = "subscribe" /\ last.args = <<FALSE, TRUE>>
    /\ last.prev.op = "WithKeys"
    /\ fc.isKeySubscribed /\ fc.isMouseSubscribed
    /\ \A t \in Topics : Len(subs[t]) = 1 /\ Registered(t)

\* the controllers a cursor sample c can leave, one for each order in which
\* the range over fc.Mouse can run
AfterCursor(c) ==
    {st.fc : st \in Dispatch({Run}, subs[OnCursor], [Xpos |-> c[1], Ypos |-> c[2]])}

\* C27: a cursor event is deterministic.  The controller a cursor-move
\* event leaves does not depend on the order in which the gesture table is
\* ranged over: whichever of the matching gestures is applied first (the
\* yaw or the pitch of an event with dx # 0 and dy # 0), forward, up and
\* the accumulated rotation come out the same.
C27_CursorOrderIndependent ==
    \A c \in SweepCursors :
        \A a \in AfterCursor(c), b \in AfterCursor(c) :
            /\ SameVector(a.forward, b.forward)
            /\ SameVector(a.up, b.up)
            /\ a.rotation = b.rotation

\* C28: preset gestures and capture.  Every mouse gesture the FPS style and
\* flight-sim style presets install requires capture state false; so while
\* the capture flag is true no cursor-move or scroll event dispatches any
\* movement, and a cursor event dispatches Yaw or Pitch only while the
\* cursor is not captured and exactly the left button is held.
C28_PresetsNeedNoCapture ==
    /\ [](fc.Mouse = PresetMouse
          => \A m \in DOMAIN fc.Mouse : ~fc.Mouse[m].Captured)
    /\ [][(/\ fc.Mouse = PresetMouse
           /\ last'.op \in {OnCursor, OnScroll} /\ Len(last'.calls) > 0)
          => /\ fc.mouseIsCaptured => Len(last'.calls) = 1
             /\ (\E i \in 2 .. Len(last'.calls) :
                    last'.calls[i].op \in {"Yaw", "Pitch"})
                => /\ last'.op = OnCursor
                   /\ ~fc.mouseIsCaptured
                   /\ HeldButtons(fc) = {MouseButtonLeft}]_vars

\* under a preset, with the cursor captured, a scroll up has been handled
\* and has dispatched nothing, the gesture of ZoomIn requiring no capture
C28_Witness ==
    /\ fc.Mouse = PresetMouse
    /\ fc.mouseIsCaptured
    /\ last.prev.op = "SetMouseIsCaptured"
    /\ last.op = OnScroll
    /\ last.calls = <<[op |-> "onScroll", delta |-> RZero, ok |-> TRUE]>>
    /\ fc.Mouse[ZoomIn] = Gesture(MouseScrollUp, <<>>, FALSE)
=============================================================================
